---- MODULE Spec2Model ----
(***************************************************************************)
(* A model of the CSG reconstruction core of csgplayground:                *)
(*   - CSGNodeCreator (create / mutate / crossover) and CSGNodeRanker,     *)
(*     src/src/csgnode_evo.cpp                                             *)
(*   - the clique orchestrator computeNodesForCliques and the merge        *)
(*     routine mergeCSGNodeClique, src/src/csgnode_evo.cpp                 *)
(*   - the pipeline driver PipelineRunner::run,                            *)
(*     src/src/optimizer_pipeline_runner.cpp                               *)
(*   - PrimitiveSetCreator (createPrimitive / mutate / create),            *)
(*     PrimitiveSetRanker::rank2 and get_rasterized_area,                  *)
(*     src/src/primitive_extraction.cpp                                    *)
(*                                                                         *)
(* A CSG tree is a record [op, func, childs]: an operation node carries    *)
(* its operator in op and its children in childs; a geometry leaf has      *)
(* op = "Geometry" and the referenced implicit function in func.           *)
(***************************************************************************)
EXTENDS Integers, Sequences, FiniteSets, TLC

(***************************************************************************)
(* Bounds of the model.                                                    *)
(***************************************************************************)
\* Largest maximum tree depth a creator is configured with.
MaxDepth == 2
\* Largest number of operation nodes in the arguments of one call, plus the
\* number of times the subtree coin of create comes up true during the call.
MaxOps == 2

\* Largest number of points (rows of points()) one implicit function carries.
MaxPoints == 1
\* Largest number of cliques handed to computeNodesForCliques.
MaxCliques == 2

\* Largest number of per-clique trees handed to mergeCSGNodeClique.
MaxMerge == 2
\* Largest number of times one decomposition calls the optimizer back.
MaxOptCalls == 2

\* random choices followed per run
MaxDraws == 2

\* Largest maxPrimitiveSetSize a primitive set creator is configured with.
MaxSetSize == 2
\* createPrimitive calls followed in one create().
MaxAttempts == 3

\* Largest number of calls of PrimitiveSetRanker::rank followed.
MaxRankCalls == 2
\* Largest number of points handed to the first call of get_rasterized_area.
MaxRasterPoints == 2

\* The implicit functions (_functions) the creator draws leaves from.
Functions == {"A", "B"}
\* The implicit functions the cliques are formed from, in a fixed order.
Shapes == <<"A", "B", "C">>
ShapeNames == {Shapes[i] : i \in 1..Len(Shapes)}
\* The values computeGeometryScore takes, in thousandths.
Scores == {0, 500, 1000}

VARIABLES
    maxTreeDepth,   \* CSGNodeCreator::_maxTreeDepth
    call,           \* the creator method that was called: "none" before the call
    node1,          \* first argument of the call (node / node1)
    node2,          \* second argument of crossover (node2)
    nodeIdx1,       \* the node index drawn for node1 (nodeIdx / nodeIdx1)
    nodeIdx2,       \* the node index drawn for node2 (nodeIdx2)
    createNew,      \* outcome of the _createNewRandomProb coin in mutate
    result          \* the trees returned by the call, as a sequence

evoVars == <<maxTreeDepth, call, node1, node2, nodeIdx1, nodeIdx2, createNew, result>>

VARIABLES
    points,         \* points().rows() of every implicit function
    rkLambda,       \* CSGNodeRanker::_lambda of the ranker under test
    rkNodes,        \* the trees the ranker was asked to rank
    rkGeo,          \* the geometry score of those trees, in thousandths
    rkRanks         \* the ranks returned for rkNodes

rankVars == <<rkLambda, rkNodes, rkGeo, rkRanks>>

VARIABLES
    geometryCliques, \* argument of computeNodesForCliques
    cqPc,            \* "loop" while iterating the cliques, "returned" after
    cqIdx,           \* number of cliques the for loop has consumed
    res,             \* the result vector: [clique, node] entries
    gaRuns,          \* the createCSGNodeWithGA calls made: [shapes, node]
    cqGeo,           \* computeGeometryScore of the four pair candidates
    ranks            \* the ranks of the four candidates of the last pair clique

cliqueVars == <<geometryCliques, cqPc, cqIdx, res, gaRuns, cqGeo, ranks>>

VARIABLES
    candidateList,  \* mergeCSGNodeClique: the trees of the clique entries
    mpc,            \* position in mergeCSGNodeClique
    mi, mj,         \* the indices i, j of the pair loops
    bestLcs,        \* size of the largest common subgraph found so far
    entries         \* the local vector entries

mergeVars == <<candidateList, mpc, mi, mj, bestLcs, entries>>

VARIABLES
    pp,             \* PipelineParams read by read_pipeline_params
    treeFile,       \* <<t>>: the tree file parses to t; <<>>: it does not parse
    rpc,            \* position in PipelineRunner::run
    runNode,        \* the local node of run
    optResult,      \* <<n>> once the try block has assigned the optimised n
    cit_sampling,   \* the local cit_sampling: [empty, gens]
    stages,         \* the pipeline functions called so far, in call order
    raised,         \* the stage that raised an exception, "none" if none did
    propagated,     \* TRUE when an exception left run
    exitCode        \* the value run returned, -1 while it has not returned

runVars == <<pp, treeFile, rpc, runNode, optResult, cit_sampling, stages, raised,
             propagated, exitCode>>

VARIABLES
    rndEngine,      \* per run: the state of the creator's random engine
    choices         \* per run: the random choices the creator has drawn

seedVars == <<rndEngine, choices>>

VARIABLES
    ms,             \* PrimitiveSetCreator::ms, the manifolds of the creator
    pcOp,           \* the creator method that ran last: "none" before any
    mtype,          \* the manifold type getRandomPrimitiveType drew
    primitive,      \* the primitive createPrimitive / mutatePrimitive returned
    psArg,          \* the argument ps of mutate
    pIdx,           \* the member index mutate drew (1-based)
    newPS,          \* the set mutate returned
    ps,             \* the set create() is filling
    setSize,        \* the set size create() drew
    attempts        \* createPrimitive calls made by the running create()

pcVars == <<ms, pcOp, mtype, primitive, psArg, pIdx, newPS, ps, setSize, attempts>>

VARIABLES
    bestRank,       \* PrimitiveSetRanker::bestRank
    bestPrimitives, \* PrimitiveSetRanker::bestPrimitives
    returned        \* the calls of rank so far: argument and returned rank

prVars == <<bestRank, bestPrimitives, returned>>

VARIABLES
    triangle,       \* triangle_points of the calls of get_rasterized_area
    areas           \* the calls that returned: their points and their area

rasterVars == <<triangle, areas>>

VARIABLES
    xoDone,         \* whether PrimitiveSetCreator::crossover has returned
    ps1,            \* the argument ps1 of crossover
    ps2,            \* the argument ps2 of crossover
    intra,          \* the value crossover drew for intra
    idx1,           \* the index crossover drew in ps1 (0-based, -1: none)
    idx2,           \* the index crossover drew in ps2 (0-based, -1: none)
    newPS1,         \* the first set crossover returned
    newPS2          \* the second set crossover returned

xoVars == <<xoDone, ps1, ps2, intra, idx1, idx2, newPS1, newPS2>>

VARIABLES
    population,     \* the primitive sets the GA holds
    gaOp,           \* the creator method the GA called last
    gaCalls         \* the number of creator calls the GA has made

popVars == <<population, gaOp, gaCalls>>

VARIABLES
    dd,             \* the static discrete_distribution dd of mutate: <<>>
                    \* until the first call initialises it
    drawn           \* the calls of mutate so far: creator and type drawn

ddVars == <<dd, drawn>>

VARIABLES
    staticPrimitives, \* extractPrimitivesWithGA: the static primitives
    phase,            \* extractPrimitivesWithGA: "ga", "tune" or "done"
    gaRanks,          \* the calls of rank the GA has made
    lastRank,         \* the last call of rank: ps, ignoreStaticPrimitives
                      \* and the rank returned
    gaBest,           \* bestPrimitiveSet() when ga.run returned
    tuneScores,       \* per tuned static primitive: score and score_cutout
    resultPrimitives  \* result.primitives

tuneVars == <<staticPrimitives, phase, gaRanks, lastRank, gaBest, tuneScores, resultPrimitives>>

VARIABLES
    trees,          \* the CSG trees the GA holds
    treeOp          \* the CSGNodeCreator method the GA called last

treeVars == <<trees, treeOp>>

VARIABLES
    thr             \* per thread in rank: the set ranked, its rank and the
                    \* statement the thread is at

raceVars == <<thr>>

\* the state of the GA over primitive sets and of its callers
extVars == <<xoVars, popVars, ddVars, tuneVars, treeVars, raceVars>>

\* the state of the primitive extraction and of the random engines
primVars == <<seedVars, pcVars, prVars, rasterVars, extVars>>

\* the state of the CSG search and of the pipeline driver
csgVars == <<evoVars, points, rankVars, cliqueVars, mergeVars, runVars>>

vars == <<csgVars, primVars>>

(***************************************************************************)
(* CSG nodes.                                                              *)
(***************************************************************************)
\* CSGNode(std::make_shared<CSGNodeGeometry>(f))
Geometry(f) == [op |-> "Geometry", func |-> f, childs |-> <<>>]

\* An operation node with two children (createOperation + 2 x addChild).
Operation(o, l, r) == [op |-> o, func |-> "none", childs |-> <<l, r>>]

\* opNo(): the Noop placeholder operation.
opNo == [op |-> "Noop", func |-> "none", childs |-> <<>>]

\* A variant whose third value is the unary Complement (value 5 of the enum).
OperationType_withComplement(i) ==
    CASE i = 1 -> "Union"
      [] i = 2 -> "Intersection"
      [] i = 3 -> "Complement"

\* CSGNodeOperationType values 1..3 as drawn by create.
OperationType(i) ==
    CASE i = 1 -> "Union"
      [] i = 2 -> "Intersection"
      [] i = 3 -> "Difference"

Max(a, b) == IF a >= b THEN a ELSE b

RECURSIVE numNodes(_), numNodesFrom(_, _)
\* numNodes(node): 1 + the nodes of all children.
numNodes(node) == 1 + numNodesFrom(node.childs, 1)
numNodesFrom(childs, i) ==
    IF i > Len(childs) THEN 0
    ELSE numNodes(childs[i]) + numNodesFrom(childs, i + 1)

RECURSIVE depth(_), depthFrom(_, _)
\* depth(node): 0 for a node without children, else 1 + the deepest child.
depth(node) == IF node.childs = <<>> THEN 0 ELSE 1 + depthFrom(node.childs, 1)
depthFrom(childs, i) ==
    IF i > Len(childs) THEN 0
    ELSE Max(depth(childs[i]), depthFrom(childs, i + 1))

RECURSIVE nodeAt(_, _), nodeAtFrom(_, _, _)
\* *nodePtrAt(node, idx): the node with pre-order index idx.
nodeAt(node, idx) ==
    IF idx = 0 THEN node ELSE nodeAtFrom(node.childs, 1, idx - 1)
nodeAtFrom(childs, i, idx) ==
    IF idx < numNodes(childs[i]) THEN nodeAt(childs[i], idx)
    ELSE nodeAtFrom(childs, i + 1, idx - numNodes(childs[i]))

RECURSIVE assignAt(_, _, _), assignAtFrom(_, _, _, _)
\* *nodePtrAt(node, idx) = sub: node with the subtree at idx overwritten.
assignAt(node, idx, sub) ==
    IF idx = 0 THEN sub
    ELSE [node EXCEPT !.childs = assignAtFrom(node.childs, 1, idx - 1, sub)]
assignAtFrom(childs, i, idx, sub) ==
    IF idx < numNodes(childs[i])
    THEN [childs EXCEPT ![i] = assignAt(childs[i], idx, sub)]
    ELSE assignAtFrom(childs, i + 1, idx - numNodes(childs[i]), sub)

(***************************************************************************)
(* CSGNodeCreator::create.                                                 *)
(***************************************************************************)
\* The leaves create can attach: any function index in [0, size-1].
Leaves == {Geometry(f) : f \in Functions}

RECURSIVE createChild(_, _, _)
\* One child slot filled by create(node, maxDepth, curDepth): a new operation
\* (subtree coin true and curDepth < maxDepth) filled recursively, or a leaf.
\* coins caps how often the subtree coin comes up true below this slot.
createChild(maxDepth, curDepth, coins) ==
    Leaves \cup
    ( IF curDepth < maxDepth /\ coins >= 1
      THEN UNION { { Operation(OperationType(o), l, r) :
                        o \in 1..3,
                        l \in createChild(maxDepth, curDepth + 1, k),
                        r \in createChild(maxDepth, curDepth + 1, coins - 1 - k) } :
                   k \in 0..(coins - 1) }
      ELSE {} )

\* create(maxDepth): a leaf when maxDepth = 0, else an operation whose two
\* children are filled by create(node, maxDepth, 1).
createWith(maxDepth, coins) ==
    IF maxDepth = 0
    THEN Leaves
    ELSE UNION { { Operation(OperationType(o), l, r) :
                      o \in 1..3,
                      l \in createChild(maxDepth, 1, k),
                      r \in createChild(maxDepth, 1, coins - k) } :
                 k \in 0..coins }

\* The trees create(maxDepth) can return with at most coins subtree coins,
\* for every depth argument the model passes (mutate passes
\* _maxTreeDepth - depth(node), which may be negative).
createTable ==
    [d \in (0 - MaxOps)..MaxDepth, c \in 0..MaxOps |-> createWith(d, c)]
create(maxDepth, coins) == createTable[maxDepth, coins]

\* The trees with exactly k operation nodes over Functions.
RECURSIVE treesWithOps(_)
treesWithOps(k) ==
    IF k = 0 THEN Leaves
    ELSE UNION { { Operation(OperationType(o), l, r) :
                      o \in 1..3,
                      l \in treesWithOps(j),
                      r \in treesWithOps(k - 1 - j) } :
                 j \in 0..(k - 1) }
TreeTable == [k \in 0..MaxOps |-> treesWithOps(k)]
Trees == UNION { TreeTable[k] : k \in 0..MaxOps }

(***************************************************************************)
(* CSGNodeCreator::mutate and CSGNodeCreator::crossover.                   *)
(***************************************************************************)
\* A variant that forgets the depth already used by the tree.
maxSubtreeDepth_wholeBudget(node) == maxTreeDepth

\* mutate(node) on the replace branch, for the drawn nodeIdx and the subtree
\* sub returned by create(maxSubtreeDepth).
maxSubtreeDepth(node) == maxTreeDepth - depth(node)
mutateAt(node, nodeIdx, sub) == assignAt(node, nodeIdx, sub)

\* A variant that returns the swapped copies whatever their depth.
crossoverAt_noFallback(n1, n2, i1, i2) ==
    << assignAt(n1, i1, nodeAt(n2, i2)), assignAt(n2, i2, nodeAt(n1, i1)) >>

\* A variant that copies instead of swapping: the second copy keeps its subtree.
crossoverAt_copies(n1, n2, i1, i2) ==
    LET newNode1 == assignAt(n1, i1, nodeAt(n2, i2))
        newNode2 == n2
    IN  << IF depth(newNode1) <= maxTreeDepth THEN newNode1 ELSE n1,
           IF depth(newNode2) <= maxTreeDepth THEN newNode2 ELSE n1 >>

\* crossover(node1, node2) for the drawn indices: swap the two subtrees of the
\* copies, then keep each copy only if its depth is within _maxTreeDepth.
crossoverAt(n1, n2, i1, i2) ==
    LET newNode1 == assignAt(n1, i1, nodeAt(n2, i2))
        newNode2 == assignAt(n2, i2, nodeAt(n1, i1))
    IN  << IF depth(newNode1) <= maxTreeDepth THEN newNode1 ELSE n1,
           IF depth(newNode2) <= maxTreeDepth THEN newNode2 ELSE n1 >>

(***************************************************************************)
(* CSGNodeRanker::rank and lambdaBasedOnPoints.  Ranks are doubles; the    *)
(* model keeps them in thousandths and keeps the two infinities apart:     *)
(* [inf |-> -1 | 0 | 1, v |-> thousandths when inf = 0].                   *)
(***************************************************************************)
Fin(v) == [inf |-> 0, v |-> v]
NegInf == [inf |-> -1, v |-> 0]
PosInf == [inf |-> 1, v |-> 0]

\* x < y on doubles
Less(x, y) == \/ x.inf < y.inf
              \/ x.inf = 0 /\ y.inf = 0 /\ x.v < y.v

\* 1000 * ln(n) rounded down, n = 1, 2, ...
LnThousandths == <<0, 693, 1098, 1386, 1609, 1791, 1945, 2079, 2197, 2302,
                   2397, 2484, 2564, 2639, 2708, 2772>>

\* std::log(numPoints): -inf at 0
Log(n) == IF n = 0 THEN NegInf ELSE Fin(LnThousandths[n])

RECURSIVE sumPoints(_, _)
\* the loop of lambdaBasedOnPoints: numPoints += shape->points().rows()
sumPoints(shapes, i) ==
    IF i > Len(shapes) THEN 0 ELSE points[shapes[i]] + sumPoints(shapes, i + 1)

lambdaBasedOnPoints(shapes) == Log(sumPoints(shapes, 1))

\* A variant that rewards size instead of penalising it.
rank_addsSize(geometryScore, lambda, node) ==
    CASE lambda.inf = 0  -> Fin(geometryScore + lambda.v * numNodes(node))
      [] lambda.inf = -1 -> NegInf
      [] lambda.inf = 1  -> PosInf

\* geometryScore - _lambda * numNodes(node)
rank(geometryScore, lambda, node) ==
    CASE lambda.inf = 0  -> Fin(geometryScore - lambda.v * numNodes(node))
      [] lambda.inf = -1 -> PosInf
      [] lambda.inf = 1  -> NegInf

RankIdle ==
    /\ rkLambda = Fin(0)
    /\ rkNodes = <<>>
    /\ rkGeo = 0
    /\ rkRanks = <<>>

\* A ranker built with lambdaBasedOnPoints over the creator's functions.
RankStart ==
    /\ points \in [ShapeNames -> 0..MaxPoints]
    /\ points["C"] = 0
    /\ rkLambda = lambdaBasedOnPoints(<<"A", "B">>)
    /\ rkNodes = <<>>
    /\ rkGeo = 0
    /\ rkRanks = <<>>

\* CSGNodeRanker::rank on two trees with the same geometry score
RankPair ==
    /\ rkNodes = <<>>
    /\ \E k1 \in 0..MaxOps :
         \E k2 \in 0..(MaxOps - k1) :
           \E n1 \in TreeTable[k1], n2 \in TreeTable[k2], g \in Scores :
              /\ rkNodes' = <<n1, n2>>
              /\ rkGeo' = g
              /\ rkRanks' = <<rank(g, rkLambda, n1), rank(g, rkLambda, n2)>>
    /\ UNCHANGED <<points, rkLambda>>
    /\ UNCHANGED <<evoVars, cliqueVars, mergeVars, runVars, primVars>>

(***************************************************************************)
(* computeNodesForCliques.                                                 *)
(***************************************************************************)
\* The cliques of the model: the first k shapes, k = 0..3.
Cliques == {SubSeq(Shapes, 1, k) : k \in 0..Len(Shapes)}

RECURSIVE SeqsUpTo(_, _)
\* the sequences over S of length 1..n
SeqsUpTo(S, n) ==
    IF n = 0 THEN {}
    ELSE {<<x>> : x \in S} \cup SeqsUpTo(S, n - 1)
         \cup {Append(q, x) : q \in SeqsUpTo(S, n - 1), x \in S}

\* the four candidates un, inter, lr, rl of a pair clique, in push_back order
candidates(functions) ==
    << Operation("Union", Geometry(functions[1]), Geometry(functions[2])),
       Operation("Intersection", Geometry(functions[1]), Geometry(functions[2])),
       Operation("Difference", Geometry(functions[1]), Geometry(functions[2])),
       Operation("Difference", Geometry(functions[2]), Geometry(functions[1])) >>

\* -std::numeric_limits<double>::max(), in thousandths
DblMax == 1000000000

\* maxScore < curScore
improves(maxScore, curScore) == Less(maxScore, curScore)

RECURSIVE bestFrom_keepsMax(_, _, _, _)
\* A variant that never updates maxScore: every candidate beats the start value.
bestFrom_keepsMax(scores, i, maxScore, best) ==
    IF i > Len(scores) THEN best
    ELSE IF improves(maxScore, scores[i])
         THEN bestFrom_keepsMax(scores, i + 1, maxScore, i)
         ELSE bestFrom_keepsMax(scores, i + 1, maxScore, best)

RECURSIVE bestFrom(_, _, _, _)
\* the candidate loop: index of bestCandidate after candidates i..end, given
\* maxScore and the index best so far (0 is nullptr)
bestFrom(scores, i, maxScore, best) ==
    IF i > Len(scores) THEN best
    ELSE IF improves(maxScore, scores[i])
         THEN bestFrom(scores, i + 1, scores[i], i)
         ELSE bestFrom(scores, i + 1, maxScore, best)

bestCandidate(scores) == bestFrom(scores, 1, Fin(0 - DblMax), 0)

\* the node pushed for a clique of one function
singleNode(functions) == Geometry(functions[1])

\* res.statistics / population[0].creature of the GA run over shapes: some
\* tree the creator builds from shapes
gaResults(shapes) ==
    { Operation(OperationType(o), Geometry(shapes[1]),
                Operation(OperationType(o), Geometry(shapes[2]),
                          Geometry(shapes[Len(shapes)]))) : o \in 1..3 }

CliqueIdle ==
    /\ geometryCliques = <<>>
    /\ cqGeo = [i \in 1..4 |-> 0]
    /\ cqPc = "idle"
    /\ cqIdx = 0
    /\ res = <<>>
    /\ gaRuns = <<>>
    /\ ranks = <<>>

\* The points of the third shape are read by the GA ranker only, whose outcome
\* gaResults takes as any creator tree, so they stay at 0.
CliqueStart ==
    /\ points \in {p \in [ShapeNames -> 0..MaxPoints] : p[Shapes[3]] = 0}
    /\ geometryCliques \in SeqsUpTo(Cliques, MaxCliques)
    /\ cqGeo \in [1..4 -> Scores]
    /\ cqPc = "loop"
    /\ cqIdx = 0
    /\ res = <<>>
    /\ gaRuns = <<>>
    /\ ranks = <<>>

clique == geometryCliques[cqIdx + 1]

\* A variant without the continue: the empty clique falls through to the GA.
CliqueEmpty_fallsThrough ==
    /\ cqPc = "loop" /\ cqIdx < Len(geometryCliques)
    /\ Len(clique) = 0
    /\ gaRuns' = Append(gaRuns, [shapes |-> clique, node |-> opNo])
    /\ res' = Append(res, [clique |-> clique, node |-> opNo])
    /\ cqIdx' = cqIdx + 1
    /\ UNCHANGED <<points, geometryCliques, cqGeo, cqPc, ranks>>
    /\ UNCHANGED <<evoVars, rankVars, mergeVars, runVars, primVars>>

\* clique.functions.empty(): continue
CliqueEmpty ==
    /\ cqPc = "loop" /\ cqIdx < Len(geometryCliques)
    /\ Len(clique) = 0
    /\ cqIdx' = cqIdx + 1
    /\ UNCHANGED <<points, geometryCliques, cqGeo, cqPc, res, gaRuns, ranks>>
    /\ UNCHANGED <<evoVars, rankVars, mergeVars, runVars, primVars>>

\* clique.functions.size() == 1
CliqueSingle ==
    /\ cqPc = "loop" /\ cqIdx < Len(geometryCliques)
    /\ Len(clique) = 1
    /\ res' = Append(res, [clique |-> clique, node |-> singleNode(clique)])
    /\ cqIdx' = cqIdx + 1
    /\ UNCHANGED <<points, geometryCliques, cqGeo, cqPc, gaRuns, ranks>>
    /\ UNCHANGED <<evoVars, rankVars, mergeVars, runVars, primVars>>

\* clique.functions.size() == 2: rank the four candidates, push the best.
\* A null bestCandidate is dereferenced: the model has no successor there.
CliquePair ==
    /\ cqPc = "loop" /\ cqIdx < Len(geometryCliques)
    /\ Len(clique) = 2
    /\ LET cands  == candidates(clique)
           lambda == lambdaBasedOnPoints(clique)
           scores == [i \in 1..4 |-> rank(cqGeo[i], lambda, cands[i])]
           best   == bestCandidate(scores)
       IN  /\ best # 0
           /\ ranks' = scores
           /\ res' = Append(res, [clique |-> clique, node |-> cands[best]])
    /\ cqIdx' = cqIdx + 1
    /\ UNCHANGED <<points, geometryCliques, cqGeo, cqPc, gaRuns>>
    /\ UNCHANGED <<evoVars, rankVars, mergeVars, runVars, primVars>>

\* three or more functions: createCSGNodeWithGA
CliqueGA ==
    /\ cqPc = "loop" /\ cqIdx < Len(geometryCliques)
    /\ Len(clique) >= 3
    /\ \E t \in gaResults(clique) :
          /\ gaRuns' = Append(gaRuns, [shapes |-> clique, node |-> t])
          /\ res' = Append(res, [clique |-> clique, node |-> t])
    /\ cqIdx' = cqIdx + 1
    /\ UNCHANGED <<points, geometryCliques, cqGeo, cqPc, ranks>>
    /\ UNCHANGED <<evoVars, rankVars, mergeVars, runVars, primVars>>

\* return res
CliqueReturn ==
    /\ cqPc = "loop" /\ cqIdx = Len(geometryCliques)
    /\ cqPc' = "returned"
    /\ UNCHANGED <<points, geometryCliques, cqGeo, cqIdx, res, gaRuns, ranks>>
    /\ UNCHANGED <<evoVars, rankVars, mergeVars, runVars, primVars>>

CliqueNext == CliqueEmpty \/ CliqueSingle \/ CliquePair \/ CliqueGA \/ CliqueReturn

EvoIdle ==
    /\ maxTreeDepth = 0
    /\ call = "idle"
    /\ node1 = opNo
    /\ node2 = opNo
    /\ nodeIdx1 = -1
    /\ nodeIdx2 = -1
    /\ createNew = FALSE
    /\ result = <<>>

NoPoints == points = [f \in ShapeNames |-> 0]

EvoStart ==
    /\ maxTreeDepth \in 0..MaxDepth
    /\ call = "none"
    /\ node1 = opNo
    /\ node2 = opNo
    /\ nodeIdx1 = -1
    /\ nodeIdx2 = -1
    /\ createNew = FALSE
    /\ result = <<>>

\* CSGNodeCreator::create()
Create ==
    /\ call = "none"
    /\ \E t \in create(maxTreeDepth, MaxOps) :
          /\ result' = <<t>>
          /\ call' = "create"
    /\ UNCHANGED <<maxTreeDepth, node1, node2, nodeIdx1, nodeIdx2, createNew>>
    /\ UNCHANGED <<points, rankVars, cliqueVars, mergeVars, runVars, primVars>>

\* CSGNodeCreator::mutate(node), create-new branch
MutateNew ==
    /\ call = "none"
    /\ \E k \in 0..MaxOps :
         \E node \in TreeTable[k], t \in create(maxTreeDepth, MaxOps - k) :
            /\ node1' = node
            /\ createNew' = TRUE
            /\ result' = <<t>>
            /\ call' = "mutate"
    /\ UNCHANGED <<maxTreeDepth, node2, nodeIdx1, nodeIdx2>>
    /\ UNCHANGED <<points, rankVars, cliqueVars, mergeVars, runVars, primVars>>

\* CSGNodeCreator::mutate(node), subtree replacement branch
MutateReplace ==
    /\ call = "none"
    /\ \E k \in 0..MaxOps :
         \E node \in TreeTable[k] :
           \E nodeIdx \in 0..(numNodes(node) - 1) :
             \E sub \in create(maxSubtreeDepth(node), MaxOps - k) :
              /\ node1' = node
              /\ nodeIdx1' = nodeIdx
              /\ createNew' = FALSE
              /\ result' = <<mutateAt(node, nodeIdx, sub)>>
              /\ call' = "mutate"
    /\ UNCHANGED <<maxTreeDepth, node2, nodeIdx2>>
    /\ UNCHANGED <<points, rankVars, cliqueVars, mergeVars, runVars, primVars>>

\* CSGNodeCreator::crossover(node1, node2)
Crossover ==
    /\ call = "none"
    /\ \E k1 \in 0..MaxOps :
         \E k2 \in 0..(MaxOps - k1) :
           \E n1 \in TreeTable[k1], n2 \in TreeTable[k2] :
             \E i1 \in 0..(numNodes(n1) - 1), i2 \in 0..(numNodes(n2) - 1) :
                /\ node1' = n1
                /\ node2' = n2
                /\ nodeIdx1' = i1
                /\ nodeIdx2' = i2
                /\ result' = crossoverAt(n1, n2, i1, i2)
                /\ call' = "crossover"
    /\ UNCHANGED <<maxTreeDepth, createNew>>
    /\ UNCHANGED <<points, rankVars, cliqueVars, mergeVars, runVars, primVars>>


(***************************************************************************)
(* mergeCSGNodeClique.                                                     *)
(***************************************************************************)
\* the subtrees of a node, as serializeNode lists them
subtrees(n) == {nodeAt(n, i) : i \in 0..(numNodes(n) - 1)}

\* SetMax of a non-empty set of numbers
SetMax(S) == CHOOSE x \in S : \A y \in S : y <= x

\* findLargestCommonSubgraph(serializeNode(n1), serializeNode(n2)).size:
\* the node count of the largest subtree both trees contain, 0 when they
\* share none (isEmptyOrInvalid)
lcsSize(n1, n2) ==
    LET common == subtrees(n1) \cap subtrees(n2)
    IN  IF common = {} THEN 0 ELSE SetMax({numNodes(c) : c \in common})

\* if (lcs.size > bestLcs.size) bestLcs = lcs, skipped for an empty lcs
updateBest(best, size) == IF size # 0 /\ size > best THEN size ELSE best

MergeIdle ==
    /\ candidateList = <<>>
    /\ mpc = "idle"
    /\ mi = 0
    /\ mj = 0
    /\ bestLcs = 0
    /\ entries = <<>>

\* The state after candidateList is filled from a non-empty clique list.
MergeStart ==
    /\ candidateList \in SeqsUpTo(TreeTable[0] \cup TreeTable[1], MaxMerge)
    /\ mpc = "pairs"
    /\ mi = 0
    /\ mj = 0
    /\ bestLcs = 0
    /\ entries = <<>>

mergeFrame == <<evoVars, points, rankVars, cliqueVars, runVars, primVars>>

\* one iteration of the inner for loop over j
MergePair ==
    /\ mpc = "pairs" /\ mi < Len(candidateList) /\ mj < Len(candidateList)
    /\ bestLcs' = IF mi >= mj THEN bestLcs
                  ELSE updateBest(bestLcs,
                         lcsSize(candidateList[mi + 1], candidateList[mj + 1]))
    /\ mj' = mj + 1
    /\ UNCHANGED <<candidateList, mpc, mi, entries>>
    /\ UNCHANGED mergeFrame

\* the inner loop is exhausted: ++i
MergeNextRow ==
    /\ mpc = "pairs" /\ mi < Len(candidateList) /\ mj = Len(candidateList)
    /\ mi' = mi + 1
    /\ mj' = 0
    /\ UNCHANGED <<candidateList, mpc, bestLcs, entries>>
    /\ UNCHANGED mergeFrame

\* the outer loop is exhausted: entries is declared, the while loop is entered
MergeEnterLoop ==
    /\ mpc = "pairs" /\ mi = Len(candidateList)
    /\ mpc' = "front"
    /\ UNCHANGED <<candidateList, mi, mj, bestLcs, entries>>
    /\ UNCHANGED mergeFrame

\* entries.front() on the vector nothing was ever pushed to is undefined:
\* the read faults ...
MergeFrontFaults ==
    /\ mpc = "front" /\ entries = <<>>
    /\ mpc' = "crashed"
    /\ UNCHANGED <<candidateList, mi, mj, bestLcs, entries>>
    /\ UNCHANGED mergeFrame

\* ... or yields whatever the storage holds
MergeFrontGarbage ==
    /\ mpc = "front" /\ entries = <<>>
    /\ mpc' = "merge"
    /\ UNCHANGED <<candidateList, mi, mj, bestLcs, entries>>
    /\ UNCHANGED mergeFrame

\* mergeNodes on candidateList[garbage] faults ...
MergeNodesFaults ==
    /\ mpc = "merge"
    /\ mpc' = "crashed"
    /\ UNCHANGED <<candidateList, mi, mj, bestLcs, entries>>
    /\ UNCHANGED mergeFrame

\* ... or returns; both switch cases only break, and the loop repeats
MergeNodesReturns ==
    /\ mpc = "merge"
    /\ mpc' = "front"
    /\ UNCHANGED <<candidateList, mi, mj, bestLcs, entries>>
    /\ UNCHANGED mergeFrame

MergeNext ==
    \/ MergePair \/ MergeNextRow \/ MergeEnterLoop
    \/ MergeFrontFaults \/ MergeFrontGarbage
    \/ MergeNodesFaults \/ MergeNodesReturns

(***************************************************************************)
(* PipelineRunner::run, load and optimize.                                 *)
(***************************************************************************)
\* the optimizer names PipelineRunner::optimize dispatches on
Optimizers ==
    {"GA", "Sampling.SetCover", "Sampling.QuineMcCluskey", "Sampling.Espresso"}

\* the values of the Optimizer option: the four names and one other string
OptimizerNames == Optimizers \cup {"Sampling.Other"}

\* an operation with any number of children, as a tree file may hold it
NaryOperation(o, cs) == [op |-> o, func |-> "none", childs |-> cs]

RECURSIVE leftDeep(_, _, _)
\* the first k children of an n-ary operation, re-associated left-deep
leftDeep(o, cs, k) ==
    IF k = 2 THEN Operation(o, cs[1], cs[2])
    ELSE Operation(o, leftDeep(o, cs, k - 1), cs[k])

RECURSIVE to_binary_tree(_)
\* to_binary_tree: n-ary unions and intersections become left-deep binary
to_binary_tree(n) ==
    LET cs == [i \in 1..Len(n.childs) |-> to_binary_tree(n.childs[i])]
    IN  IF Len(cs) <= 2 THEN [n EXCEPT !.childs = cs]
        ELSE leftDeep(n.op, cs, Len(cs))

\* the trees a readable tree file holds
FileTrees ==
    { opNo,
      Geometry("A"),
      Operation("Union", Geometry("A"), Geometry("B")),
      NaryOperation("Union", <<Geometry("A"), Geometry("B"), Geometry("A")>>) }

\* the trees a pipeline stage (dedup, redundancy removal, optimizer) returns
StageOut ==
    { opNo, Geometry("A"), Operation("Union", Geometry("A"), Geometry("B")) }

\* A variant of the guard that lets every loaded node through.
isNoop_never(n) == FALSE

\* node.operationType() == CSGNodeOperationType::Noop
isNoop(n) == n.op = "Noop"

\* A variant of the result check that accepts every node.
resultIsNoop_never(n) == FALSE

\* node.type() == Operation && node.operationType() == Noop
resultIsNoop(n) == n.op # "Geometry" /\ n.op = "Noop"

\* the stages whose call sits inside the try block of run
caught(stage) == stage \in {"decompose", "optimize"}

\* sample_if_empty without the test for sets that are there
sample_if_empty_always(use, cit) ==
    IF ~use THEN {cit}
    ELSE {[empty |-> e, gens |-> cit.gens + 1] : e \in BOOLEAN}

\* sample_if_empty when use is set: nothing when the sets are there, else
\* they are generated (the generated sets may hold no point)
sample_if_empty(use, cit) ==
    IF ~use \/ ~cit.empty THEN {cit}
    ELSE {[empty |-> e, gens |-> cit.gens + 1] : e \in BOOLEAN}

RECURSIVE repeat(_, _)
repeat(x, k) == IF k = 0 THEN <<>> ELSE Append(repeat(x, k - 1), x)

RunIdle ==
    /\ pp = [optimizer |-> "GA", save_meshes |-> FALSE,
             use_decomposition |-> FALSE, use_redundancy_removal |-> FALSE,
             use_cit_points_for_decomposition |-> FALSE,
             use_cit_points_for_redundancy_removal |-> FALSE]
    /\ treeFile = <<>>
    /\ rpc = "idle"
    /\ runNode = opNo
    /\ optResult = <<>>
    /\ cit_sampling = [empty |-> TRUE, gens |-> 0]
    /\ stages = <<>>
    /\ raised = "none"
    /\ propagated = FALSE
    /\ exitCode = -1

\* run() is entered: the parameters are read, cit_sampling is empty
RunStart ==
    /\ pp \in [optimizer : OptimizerNames, save_meshes : BOOLEAN,
               use_decomposition : BOOLEAN, use_redundancy_removal : BOOLEAN,
               use_cit_points_for_decomposition : BOOLEAN,
               use_cit_points_for_redundancy_removal : BOOLEAN]
    /\ treeFile \in {<<>>} \cup {<<t>> : t \in FileTrees}
    /\ rpc = "start"
    /\ runNode = opNo
    /\ optResult = <<>>
    /\ cit_sampling = [empty |-> TRUE, gens |-> 0]
    /\ stages = <<>>
    /\ raised = "none"
    /\ propagated = FALSE
    /\ exitCode = -1

runFrame == <<evoVars, points, rankVars, cliqueVars, mergeVars, primVars>>

\* an exception raised by stage: caught by the try block, or it leaves run
Raise(stage) ==
    /\ raised' = stage
    /\ IF caught(stage)
       THEN /\ exitCode' = 1
            /\ rpc' = "returned"
            /\ propagated' = FALSE
       ELSE /\ exitCode' = exitCode
            /\ rpc' = "threw"
            /\ propagated' = TRUE

meshCall == IF pp.save_meshes THEN <<"save_as_obj_mesh">> ELSE <<>>

\* load: fromJSONFile throws, the catch returns the Noop placeholder
RunLoadFails ==
    /\ rpc = "start" /\ treeFile = <<>>
    /\ runNode' = opNo
    /\ stages' = stages \o <<"fromJSONFile">>
    /\ rpc' = "loaded"
    /\ UNCHANGED <<pp, treeFile, optResult, cit_sampling, raised, propagated, exitCode>>
    /\ UNCHANGED runFrame

\* A variant of load that hands the tree on as the file holds it.
RunLoad_unbinarised ==
    /\ rpc = "start" /\ treeFile # <<>>
    /\ runNode' = treeFile[1]
    /\ stages' = stages \o <<"fromJSONFile">> \o meshCall \o <<"writeNode">>
    /\ rpc' = "loaded"
    /\ UNCHANGED <<pp, treeFile, optResult, cit_sampling, raised, propagated, exitCode>>
    /\ UNCHANGED runFrame

\* load: the tree is read and binarised, the input mesh and graph are saved
RunLoad ==
    /\ rpc = "start" /\ treeFile # <<>>
    /\ runNode' = to_binary_tree(treeFile[1])
    /\ stages' = stages \o <<"fromJSONFile", "to_binary_tree">> \o meshCall
                        \o <<"writeNode">>
    /\ rpc' = "loaded"
    /\ UNCHANGED <<pp, treeFile, optResult, cit_sampling, raised, propagated, exitCode>>
    /\ UNCHANGED runFrame

\* if (node.operationType() == Noop) return 1
RunNoopExit ==
    /\ rpc = "loaded" /\ isNoop(runNode)
    /\ exitCode' = 1
    /\ rpc' = "returned"
    /\ UNCHANGED <<pp, treeFile, runNode, optResult, cit_sampling, stages, raised, propagated>>
    /\ UNCHANGED runFrame

\* node = filter_name_duplicates(node), then the stat files are opened
RunDedup ==
    /\ rpc = "loaded" /\ ~isNoop(runNode)
    /\ \E n \in StageOut : runNode' = n
    /\ stages' = Append(stages, "filter_name_duplicates")
    /\ rpc' = "deduped"
    /\ UNCHANGED <<pp, treeFile, optResult, cit_sampling, raised, propagated, exitCode>>
    /\ UNCHANGED runFrame

RunDedupRaises ==
    /\ rpc = "loaded" /\ ~isNoop(runNode)
    /\ stages' = Append(stages, "filter_name_duplicates")
    /\ Raise("filter_name_duplicates")
    /\ UNCHANGED <<pp, treeFile, runNode, optResult, cit_sampling>>
    /\ UNCHANGED runFrame

\* Remove Redundancies Before (when enabled), then after_red is written
RunRedBefore ==
    /\ rpc = "deduped"
    /\ IF pp.use_redundancy_removal
       THEN /\ cit_sampling' \in
                 sample_if_empty(pp.use_cit_points_for_redundancy_removal, cit_sampling)
            /\ \E n \in StageOut : runNode' = n
            /\ stages' = stages \o <<"remove_redundancies">> \o meshCall
                                \o <<"writeNode">>
       ELSE /\ UNCHANGED <<cit_sampling, runNode>>
            /\ stages' = stages \o meshCall \o <<"writeNode">>
    /\ rpc' = "reduced"
    /\ UNCHANGED <<pp, treeFile, optResult, raised, propagated, exitCode>>
    /\ UNCHANGED runFrame

RunRedBeforeRaises ==
    /\ rpc = "deduped" /\ pp.use_redundancy_removal
    /\ stages' = Append(stages, "remove_redundancies")
    /\ Raise("remove_redundancies_before")
    /\ UNCHANGED <<pp, treeFile, runNode, optResult, cit_sampling>>
    /\ UNCHANGED runFrame

\* try: optimize_with_decomposition, which calls optimize back
RunDecompose ==
    /\ rpc = "reduced" /\ pp.use_decomposition /\ pp.optimizer \in Optimizers
    /\ cit_sampling' \in
          sample_if_empty(pp.use_cit_points_for_decomposition, cit_sampling)
    /\ \E n \in StageOut :
          /\ runNode' = n
          /\ optResult' = <<n>>
    /\ \E k \in 1..MaxOptCalls :
          stages' = stages \o <<"optimize_with_decomposition">> \o repeat("optimize", k)
    /\ rpc' = "optimized"
    /\ UNCHANGED <<pp, treeFile, raised, propagated, exitCode>>
    /\ UNCHANGED runFrame

\* try: the decomposition itself raises
RunDecomposeRaises ==
    /\ rpc = "reduced" /\ pp.use_decomposition
    /\ stages' = Append(stages, "optimize_with_decomposition")
    /\ Raise("decompose")
    /\ UNCHANGED <<pp, treeFile, runNode, optResult, cit_sampling>>
    /\ UNCHANGED runFrame

\* try: node = optimize(node, {}, pp, ...) with one of the four optimizers
RunOptimize ==
    /\ rpc = "reduced" /\ ~pp.use_decomposition /\ pp.optimizer \in Optimizers
    /\ \E n \in StageOut :
          /\ runNode' = n
          /\ optResult' = <<n>>
    /\ stages' = Append(stages, "optimize")
    /\ rpc' = "optimized"
    /\ UNCHANGED <<pp, treeFile, cit_sampling, raised, propagated, exitCode>>
    /\ UNCHANGED runFrame

decompositionCall ==
    IF pp.use_decomposition THEN <<"optimize_with_decomposition">> ELSE <<>>

\* try: optimize throws "Optimizer with name ... does not exist."
RunOptimizeUnknown ==
    /\ rpc = "reduced" /\ pp.optimizer \notin Optimizers
    /\ stages' = stages \o decompositionCall \o <<"optimize">>
    /\ Raise("optimize")
    /\ UNCHANGED <<pp, treeFile, runNode, optResult, cit_sampling>>
    /\ UNCHANGED runFrame

\* try: the selected optimizer raises
RunOptimizeRaises ==
    /\ rpc = "reduced" /\ pp.optimizer \in Optimizers
    /\ stages' = stages \o decompositionCall \o <<"optimize">>
    /\ Raise("optimize")
    /\ UNCHANGED <<pp, treeFile, runNode, optResult, cit_sampling>>
    /\ UNCHANGED runFrame

\* "Something went wrong. Node is NoOp.": return 1
RunResultNoop ==
    /\ rpc = "optimized" /\ resultIsNoop(runNode)
    /\ exitCode' = 1
    /\ rpc' = "returned"
    /\ UNCHANGED <<pp, treeFile, runNode, optResult, cit_sampling, stages, raised, propagated>>
    /\ UNCHANGED runFrame

\* Remove Redundancies Afterwards (when enabled), save results, return 0
RunRedAfter ==
    /\ rpc = "optimized" /\ ~resultIsNoop(runNode)
    /\ IF pp.use_redundancy_removal
       THEN /\ cit_sampling' \in
                 sample_if_empty(pp.use_cit_points_for_redundancy_removal, cit_sampling)
            /\ \E n \in StageOut : runNode' = n
            /\ stages' = stages \o <<"remove_redundancies", "writeNode">> \o meshCall
       ELSE /\ UNCHANGED <<cit_sampling, runNode>>
            /\ stages' = stages \o <<"writeNode">> \o meshCall
    /\ exitCode' = 0
    /\ rpc' = "returned"
    /\ UNCHANGED <<pp, treeFile, optResult, raised, propagated>>
    /\ UNCHANGED runFrame

RunRedAfterRaises ==
    /\ rpc = "optimized" /\ ~resultIsNoop(runNode) /\ pp.use_redundancy_removal
    /\ stages' = Append(stages, "remove_redundancies")
    /\ Raise("remove_redundancies_after")
    /\ UNCHANGED <<pp, treeFile, runNode, optResult, cit_sampling>>
    /\ UNCHANGED runFrame

RunNext ==
    \/ RunLoadFails \/ RunLoad \/ RunNoopExit
    \/ RunDedup \/ RunDedupRaises
    \/ RunRedBefore \/ RunRedBeforeRaises
    \/ RunDecompose \/ RunDecomposeRaises
    \/ RunOptimize \/ RunOptimizeUnknown \/ RunOptimizeRaises
    \/ RunResultNoop \/ RunRedAfter \/ RunRedAfterRaises

(***************************************************************************)
(* The random engines of the creators.  Both CSGNodeCreator and            *)
(* PrimitiveSetCreator seed their std::default_random_engine from their    *)
(* std::random_device in the constructor; every random choice of create,   *)
(* mutate and crossover is a distribution applied to that engine.  Two     *)
(* runs of the search on the same inputs are two engines side by side.     *)
(***************************************************************************)
Runs == {1, 2}

\* the states of the engine (a linear congruential engine, scaled down)
EngineStates == 8

\* std::random_device::operator(): any value
rndDevice == 0..(EngineStates - 1)

\* one step of the engine
engineStep(x) == (5 * x + 3) % EngineStates

\* std::uniform_int_distribution{lo, hi} applied to the engine in state x
uniformInt(x, lo, hi) == lo + (x % (hi - lo + 1))

SeedIdle ==
    /\ rndEngine = [r \in Runs |-> -1]
    /\ choices = [r \in Runs |-> <<>>]

seedFrame == <<csgVars, pcVars, prVars, rasterVars, extVars>>

\* the constructor: rndEngine.seed(rndDevice())
SeedConstruct ==
    /\ \E r \in Runs, s \in rndDevice :
          /\ rndEngine[r] = -1
          /\ rndEngine' = [rndEngine EXCEPT ![r] = s]
    /\ UNCHANGED choices
    /\ UNCHANGED seedFrame

\* one random choice of a creator method, here the function index drawn by
\* create: du(_rndEngine, {0, _functions.size() - 1})
SeedDraw ==
    /\ \E r \in Runs :
          /\ rndEngine[r] # -1
          /\ Len(choices[r]) < MaxDraws
          /\ choices' = [choices EXCEPT
                 ![r] = Append(@, uniformInt(rndEngine[r], 0, Cardinality(Functions) - 1))]
          /\ rndEngine' = [rndEngine EXCEPT ![r] = engineStep(@)]
    /\ UNCHANGED seedFrame

SeedNext == SeedConstruct \/ SeedDraw

(***************************************************************************)
(* The primitive set creator, src/src/primitive_extraction.cpp.            *)
(* Lengths and the components of unit normals are in thousandths.  A       *)
(* manifold is a record [type, p, n]; a primitive is a record              *)
(* [type, ms, cutout], Primitive::None() having type "None".               *)
(***************************************************************************)
Abs(x) == IF x < 0 THEN -x ELSE x

\* a.dot(b), unscaled (millionths for two vectors in thousandths)
dot(a, b) == a[1] * b[1] + a[2] * b[2] + a[3] * b[3]

\* a - b
minus(a, b) == <<a[1] - b[1], a[2] - b[2], a[3] - b[3]>>

\* std::abs(a.dot(b)) in thousandths
absDot(a, b) == Abs(dot(a, b)) \div 1000

Manifold(t, p, n) == [type |-> t, p |-> p, n |-> n]

\* the manifolds of the model: planes with normals along x, along z and
\* along the diagonal of x and y (45 degrees to x), two of each; a
\* cylinder along z; a sphere.  No manifold passes through the origin.
PX1 == Manifold("Plane", <<1000, 0, 0>>, <<1000, 0, 0>>)
PX2 == Manifold("Plane", <<2000, 0, 0>>, <<1000, 0, 0>>)
PD1 == Manifold("Plane", <<1000, 1000, 0>>, <<707, 707, 0>>)
PD2 == Manifold("Plane", <<2000, 2000, 0>>, <<707, 707, 0>>)
PZ1 == Manifold("Plane", <<0, 0, 1000>>, <<0, 0, 1000>>)
PZ2 == Manifold("Plane", <<0, 0, 2000>>, <<0, 0, 1000>>)
CZ == Manifold("Cylinder", <<1000, 1000, 1000>>, <<0, 0, 1000>>)
SP == Manifold("Sphere", <<1000, 1000, 1000>>, <<0, 0, 1000>>)

\* the manifold sets a creator is constructed with
BoxManifolds == <<PX1, PX2, PD1, PD2, PZ1, PZ2, CZ, SP>>
SmallManifoldSets == {<<PZ1, CZ, SP>>, <<CZ, SP>>, <<SP>>}

\* angleEpsilon = M_PI / 9: its cosine and its sine, in thousandths
cos_e == 940
sin_e == 342
\* minDistanceBetweenParallelPlanes = 0.001
minDistanceBetweenParallelPlanes == 1
\* Eigen::Vector3d(0, 0, 0)
anyDirection == <<0, 0, 0>>

\* the creator's maxPrimitiveSetSize
maxPrimitiveSetSize == MaxSetSize

\* lmu::manifoldsEqual: the same type, point and normal
manifoldsEqual(a, b) == a.type = b.type /\ a.p = b.p /\ a.n = b.n

\* getAvailableManifoldTypes(ms)
availableManifoldTypes == {ms[i].type : i \in 1..Len(ms)}

\* getManifold: the candidates the returned manifold is drawn from; the
\* empty set stands for nullptr.  cosE is the cosine of angleEpsilon.  The
\* calls that omit ignoreDirection, point and minimumPointDistance are given
\* FALSE, the origin and 0; every manifold of the model is farther than 0
\* from the origin, so the distance test of those calls admits all of them.
getManifold(type, direction, alreadyUsed, cosE, ignoreDirection, point, minimumPointDistance) ==
    {ms[i] : i \in {k \in 1..Len(ms) :
        /\ ms[k].type = type
        /\ \A j \in 1..Len(alreadyUsed) : ~manifoldsEqual(ms[k], alreadyUsed[j])
        /\ (ignoreDirection \/ absDot(direction, ms[k].n) > cosE)
        /\ absDot(minus(point, ms[k].p), ms[k].n) > minimumPointDistance}}

\* getPerpendicularPlane: the candidates
getPerpendicularPlane(planes, alreadyUsed) ==
    {ms[i] : i \in {k \in 1..Len(ms) :
        /\ ms[k].type = "Plane"
        /\ \A j \in 1..Len(alreadyUsed) : ~manifoldsEqual(ms[k], alreadyUsed[j])
        /\ \A j \in 1..Len(planes) : ~(absDot(planes[j].n, ms[k].n) >= cos_e)}}

\* getParallelPlane: the candidates
getParallelPlane(plane, alreadyUsed) ==
    getManifold("Plane", plane.n, alreadyUsed, cos_e, FALSE, plane.p,
                minDistanceBetweenParallelPlanes)

\* getRandomPrimitiveType: the manifold types it can draw, each with the
\* primitive type it returns for it
getRandomPrimitiveType ==
    {[m |-> t,
      p |-> CASE t = "Plane" -> "Box"
              [] t = "Cylinder" -> "Cylinder"
              [] OTHER -> "None"] : t \in availableManifoldTypes}

None == [type |-> "None", ms |-> <<>>, cutout |-> FALSE]

\* d >= 0.0 for d = num / den, den # 0
quotientNotNegative(num, den) == num = 0 \/ ((num > 0) <=> (den > 0))

\* the two planes of one pair as createBoxPrimitive stores them: each normal
\* flipped when its plane lies on the positive side of the other
orientPair(m1, m2) ==
    LET d1 == quotientNotNegative(dot(minus(m2.p, m1.p), m2.n), dot(m1.n, m2.n))
        d2 == quotientNotNegative(dot(minus(m1.p, m2.p), m1.n), dot(m2.n, m1.n))
        flip(m) == [m EXCEPT !.n = <<-m.n[1], -m.n[2], -m.n[3]>>]
    IN <<IF d1 THEN flip(m1) ELSE m1, IF d2 THEN flip(m2) ELSE m2>>

\* createBoxPrimitive; empty is the outcome of IFPolytope::empty()
createBoxPrimitive(planes, empty) ==
    IF Len(planes) # 6 THEN None
    ELSE IF empty THEN None
    ELSE [type |-> "Box",
          ms |-> orientPair(planes[1], planes[2]) \o orientPair(planes[3], planes[4])
                 \o orientPair(planes[5], planes[6]),
          cutout |-> FALSE]

\* createSpherePrimitive
createSpherePrimitive(m) ==
    IF m.type # "Sphere" THEN None
    ELSE [type |-> "Sphere", ms |-> <<m>>, cutout |-> FALSE]

\* createCylinderPrimitive; with one plane the second one is estimated from
\* the point cloud
createCylinderPrimitive(m, planes) ==
    [type |-> "Cylinder",
     ms |-> CASE Len(planes) = 0 -> <<m>>
              [] Len(planes) = 1 -> <<m, planes[1], Manifold("Plane", m.p, planes[1].n)>>
              [] OTHER -> <<m, planes[1], planes[2]>>,
     cutout |-> FALSE]

\* the plane lists the Box case of createPrimitive can end with: six planes,
\* or fewer when a selection found no plane (break)
RECURSIVE boxPlanes(_)
boxPlanes(planes) ==
    IF Len(planes) = 6 THEN {planes}
    ELSE LET found ==
                 IF Len(planes) = 0
                 THEN getManifold("Plane", anyDirection, <<>>, 1000, TRUE, anyDirection, 0)
                 ELSE IF Len(planes) % 2 = 1
                 THEN getParallelPlane(planes[Len(planes)], planes)
                 ELSE getPerpendicularPlane(planes, planes)
         IN IF found = {} THEN {planes}
            ELSE UNION {boxPlanes(Append(planes, m)) : m \in found}

\* the cap planes the Cylinder case selects in k tries
RECURSIVE capPlanes(_, _, _)
capPlanes(cyl, planes, k) ==
    IF k = 0 THEN {planes}
    ELSE LET found == getManifold("Plane", cyl.n, planes, cos_e, FALSE, anyDirection, 0)
         IN IF found = {} THEN capPlanes(cyl, planes, k - 1)
            ELSE UNION {capPlanes(cyl, Append(planes, m), k - 1) : m \in found}

\* the body createPrimitive builds for primitive type t, before the cutout
\* flag is drawn
primitiveOfType(t) ==
    CASE t = "Box" ->
           {IF Len(planes) = 6 THEN createBoxPrimitive(planes, e) ELSE None :
               planes \in boxPlanes(<<>>), e \in BOOLEAN}
      [] t = "Cylinder" ->
           LET cyls == getManifold("Cylinder", anyDirection, <<>>, 1000, TRUE, anyDirection, 0)
           IN IF cyls = {} THEN {None}
              ELSE UNION {{createCylinderPrimitive(c, pl) :
                              pl \in UNION {capPlanes(c, <<>>, k) : k \in 0..2}} :
                          c \in cyls}
      [] t = "Sphere" ->
           LET spheres == getManifold("Sphere", anyDirection, <<>>, 1000, TRUE, anyDirection, 0)
           IN IF spheres = {} THEN {None}
              ELSE {createSpherePrimitive(s) : s \in spheres}
      [] OTHER -> {None}

\* createPrimitive: the possible results, each with the manifold type drawn
createPrimitive ==
    UNION {{[m |-> t.m, p |-> [b EXCEPT !.cutout = c]] :
               b \in primitiveOfType(t.p), c \in BOOLEAN} :
           t \in getRandomPrimitiveType}

\* mutatePrimitive with a Sphere treated by the Cylinder case
mutatePrimitive_sphereAsCylinder(p) ==
    LET bodies ==
          CASE p.type = "Box" ->
                 UNION {LET found == getParallelPlane(p.ms[i], p.ms)
                        IN IF found = {} THEN {p}
                           ELSE {createBoxPrimitive([p.ms EXCEPT ![i + 1] = m], e) :
                                    m \in found, e \in BOOLEAN} :
                        i \in {1, 3, 5}}
            [] p.type \in {"Cylinder", "Sphere"} ->
                 {createCylinderPrimitive(p.ms[1], pl) :
                     pl \in UNION {capPlanes(p.ms[1], <<>>, k) : k \in 0..2}}
            [] OTHER -> {p}
    IN {[b EXCEPT !.cutout = c] : b \in bodies, c \in BOOLEAN}

\* mutatePrimitive: the possible results.  Only Box and Cylinder have a
\* case; the cutout flag is drawn anew for every type.
mutatePrimitive(p) ==
    LET bodies ==
          CASE p.type = "Box" ->
                 UNION {LET found == getParallelPlane(p.ms[i], p.ms)
                        IN IF found = {} THEN {p}
                           ELSE {createBoxPrimitive([p.ms EXCEPT ![i + 1] = m], e) :
                                    m \in found, e \in BOOLEAN} :
                        i \in {1, 3, 5}}
            [] p.type = "Cylinder" ->
                 {createCylinderPrimitive(p.ms[1], pl) :
                     pl \in UNION {capPlanes(p.ms[1], <<>>, k) : k \in 0..2}}
            [] OTHER -> {p}
    IN {[b EXCEPT !.cutout = c] : b \in bodies, c \in BOOLEAN}

\* the creator before any call, apart from its manifolds
pcFresh ==
    /\ pcOp = "none"
    /\ mtype = "none"
    /\ primitive = None
    /\ psArg = <<>>
    /\ pIdx = 0
    /\ newPS = <<>>
    /\ ps = <<>>
    /\ setSize = 0
    /\ attempts = 0

PcIdle == ms = <<>> /\ pcFresh

pcFrame == <<csgVars, seedVars, prVars, rasterVars, extVars>>

\* one call of createPrimitive; the arguments and locals of an earlier call
\* of mutate are gone
PcCreatePrimitive ==
    /\ \E o \in createPrimitive :
          /\ mtype' = o.m
          /\ primitive' = o.p
    /\ pcOp' = "createPrimitive"
    /\ psArg' = <<>> /\ pIdx' = 0 /\ newPS' = <<>>
    /\ UNCHANGED <<ms, ps, setSize, attempts>>
    /\ UNCHANGED pcFrame

\* the primitive sets mutate is called on: the set of the primitive
\* returned last, and the sets of sphere primitives of the creator's sphere
\* manifolds
mutateArgs ==
    LET spheres == {[createSpherePrimitive(ms[i]) EXCEPT !.cutout = c] :
                       i \in {k \in 1..Len(ms) : ms[k].type = "Sphere"}, c \in BOOLEAN}
    IN (SeqsUpTo(spheres, maxPrimitiveSetSize) \ {<<>>})
       \cup {<<p>> : p \in {q \in {primitive} : q.type # "None"}}

\* mutate(ps) drawing MutationType::MODIFY, on a non-empty ps and with
\* maxMutationIterations = 1: one iteration of the loop
PcMutateModify ==
    /\ \E in \in mutateArgs :
       \E i \in 1..Len(in) :
       \E newP \in mutatePrimitive(in[i]) :
          /\ psArg' = in
          /\ pIdx' = i
          /\ primitive' = newP
          /\ newPS' = [in EXCEPT ![i] = IF newP.type = "None" THEN in[i] ELSE newP]
    /\ pcOp' = "MODIFY"
    /\ mtype' = "none"
    /\ UNCHANGED <<ms, ps, setSize, attempts>>
    /\ UNCHANGED pcFrame

PrimNext == PcCreatePrimitive \/ PcMutateModify

\* create(): the set size is drawn
PcCreateBegin ==
    /\ pcOp = "none"
    /\ pcOp' = "create"
    /\ setSize' \in 1..maxPrimitiveSetSize
    /\ ps' = <<>>
    /\ UNCHANGED <<ms, mtype, primitive, psArg, pIdx, newPS, attempts>>
    /\ UNCHANGED pcFrame

\* create() storing every primitive, None included
PcCreateTry_storesNone ==
    /\ pcOp = "create"
    /\ Len(ps) < setSize
    /\ attempts < MaxAttempts
    /\ \E o \in createPrimitive :
          /\ mtype' = o.m
          /\ primitive' = o.p
          /\ ps' = Append(ps, o.p)
    /\ attempts' = attempts + 1
    /\ UNCHANGED <<ms, pcOp, psArg, pIdx, newPS, setSize>>
    /\ UNCHANGED pcFrame

\* create(): one pass of the fill loop
PcCreateTry ==
    /\ pcOp = "create"
    /\ Len(ps) < setSize
    /\ attempts < MaxAttempts
    /\ \E o \in createPrimitive :
          /\ mtype' = o.m
          /\ primitive' = o.p
          /\ ps' = IF o.p.type # "None" THEN Append(ps, o.p) ELSE ps
    /\ attempts' = attempts + 1
    /\ UNCHANGED <<ms, pcOp, psArg, pIdx, newPS, setSize>>
    /\ UNCHANGED pcFrame

\* create(): the loop is left and ps returned
PcCreateReturn ==
    /\ pcOp = "create"
    /\ ~(Len(ps) < setSize)
    /\ pcOp' = "created"
    /\ UNCHANGED <<ms, mtype, primitive, psArg, pIdx, newPS, ps, setSize, attempts>>
    /\ UNCHANGED pcFrame

CreateNext == PcCreateBegin \/ PcCreateTry \/ PcCreateReturn

(***************************************************************************)
(* create() as long as its loop runs: the passes are not counted, so that  *)
(* a loop that never reaches the set size is a behaviour that never        *)
(* returns.                                                                *)
(***************************************************************************)
\* creators of a single plane, of a sphere only, and of a cylinder
LiveManifoldSets == SmallManifoldSets \cup {<<PZ1>>, <<PZ1, PZ2, CZ>>}

\* create(): one pass of the fill loop
PcCreatePass ==
    /\ pcOp = "create"
    /\ Len(ps) < setSize
    /\ \E o \in createPrimitive :
          /\ mtype' = o.m
          /\ primitive' = o.p
          /\ ps' = IF o.p.type # "None" THEN Append(ps, o.p) ELSE ps
    /\ UNCHANGED <<ms, pcOp, psArg, pIdx, newPS, setSize, attempts>>
    /\ UNCHANGED pcFrame

CreateLiveNext == PcCreateBegin \/ PcCreatePass \/ PcCreateReturn

(***************************************************************************)
(* The primitive set ranker, src/src/primitive_extraction.cpp.  A double   *)
(* is a record [nan, v] with v in thousandths; a comparison with NaN is    *)
(* false.  A primitive carries what rank2 derives from it: the number of   *)
(* triangles of its mesh, the summed area of the triangles, the summed     *)
(* rasterized area of the points in them, and the points of the cloud it   *)
(* is closest to within delta with a matching normal.                      *)
(***************************************************************************)
real(v) == [nan |-> FALSE, v |-> v]
NaN == [nan |-> TRUE, v |-> 0]

\* x < y with an unordered comparison taken as true
lessThan_unordered(x, y) == x.nan \/ y.nan \/ x.v < y.v

\* x < y
lessThan(x, y) == ~x.nan /\ ~y.nan /\ x.v < y.v

\* a / b of two non-negative doubles: 0 / 0 is NaN, a / 0 is +infinity,
\* which lies above every finite double
quotient(a, b) ==
    IF b = 0 THEN (IF a = 0 THEN NaN ELSE real(DblMax + 1))
    ELSE real((1000 * a) \div b)

\* x + y
plus(x, y) == IF x.nan \/ y.nan THEN NaN ELSE real(x.v + y.v)

RankedPrimitive(t, n, a, pa, f) ==
    [type |-> t, triangles |-> n, area |-> a, point_area |-> pa, fits |-> f]

\* pc.rows(): the points of the ranker's cloud
CloudPoints == {1, 2}

\* a box half covered by points, a box fully covered, a cylinder
RankedPrimitives ==
    {RankedPrimitive("Box", 12, 2, 1, {1}),
     RankedPrimitive("Box", 12, 2, 2, {1, 2}),
     RankedPrimitive("Cylinder", 0, 0, 0, {2})}

\* the primitive sets rank is called on
RankedSets == SeqsUpTo(RankedPrimitives, MaxSetSize) \cup {<<>>}

\* the members of ps that pass the checks of the area loop
inAreaScore(p) == p.type = "Box" /\ p.triangles = 12

RECURSIVE summed(_, _, _)
summed(pset, i, field) ==
    IF i > Len(pset) THEN 0
    ELSE (IF inAreaScore(pset[i]) THEN pset[i][field] ELSE 0) + summed(pset, i + 1, field)

\* validPoints
validPoints(pset) == Cardinality(UNION {pset[i].fits : i \in 1..Len(pset)})

\* the rank rank2 returns: a * area_score + g * geo_score - s * size_score
\* with a = g = 1 and s = 0
rank2(pset) ==
    IF Len(pset) = 0 THEN real(-DblMax)
    ELSE plus(quotient(summed(pset, 1, "point_area"), summed(pset, 1, "area")),
              quotient(validPoints(pset), Cardinality(CloudPoints)))

\* the ranker after construction
PrStart ==
    /\ bestRank = real(-DblMax)
    /\ bestPrimitives = <<>>
    /\ returned = <<>>

PrIdle == PrStart

prFrame == <<csgVars, seedVars, pcVars, rasterVars, extVars>>

\* rank(ps) for an empty ps: the early return
PrRankEmpty ==
    /\ Len(returned) < MaxRankCalls
    /\ returned' = Append(returned, [ps |-> <<>>, r |-> rank2(<<>>)])
    /\ UNCHANGED <<bestRank, bestPrimitives>>
    /\ UNCHANGED prFrame

\* rank(ps) for a non-empty ps
PrRank ==
    /\ Len(returned) < MaxRankCalls
    /\ \E s \in RankedSets \ {<<>>} :
          /\ bestRank' = IF lessThan(bestRank, rank2(s)) THEN rank2(s) ELSE bestRank
          /\ bestPrimitives' =
                 IF lessThan(bestRank, rank2(s)) THEN s ELSE bestPrimitives
          /\ returned' = Append(returned, [ps |-> s, r |-> rank2(s)])
    /\ UNCHANGED prFrame

PrNext == PrRankEmpty \/ PrRank

(***************************************************************************)
(* get_rasterized_area, src/src/primitive_extraction.cpp.  Points are      *)
(* pairs of integers; the triangles are right triangles with legs along    *)
(* the axes, so that the rotation is a number of quarter turns and the     *)
(* norms are integers.                                                     *)
(***************************************************************************)
\* raster_size, in units of the integer lattice
raster_size == 2

\* triangle_points: a triangle of one cell; a triangle with the right angle
\* at its first corner; one with the right angle at its last corner and its
\* first leg along y.  All are counterclockwise.
Triangles ==
    {<<<<0, 0>>, <<2, 0>>, <<2, 2>>>>,
     <<<<0, 0>>, <<3, 0>>, <<0, 3>>>>,
     <<<<0, 4>>, <<3, 0>>, <<3, 4>>>>}

dot2d(a, b) == a[1] * b[1] + a[2] * b[2]
minus2d(a, b) == <<a[1] - b[1], a[2] - b[2]>>
\* the norm of a vector along an axis
norm(v) == Abs(v[1]) + Abs(v[2])
\* (int)std::ceil(a / b) for a >= 0, b > 0
ceilDiv(a, b) == (a + b - 1) \div b
\* (int)(a / b), b > 0: the conversion truncates towards zero
truncDiv(a, b) == IF a >= 0 THEN a \div b ELSE -((-a) \div b)

\* the two edges of smallest dot product (v0, v1) and the origin
orthogonalVectors(t) ==
    LET cv01 == minus2d(t[2], t[1])
        cv12 == minus2d(t[3], t[2])
        cv02 == minus2d(t[3], t[1])
        dot0 == Abs(dot2d(cv01, cv12))
        dot1 == Abs(dot2d(cv01, cv02))
        dot2 == Abs(dot2d(cv12, cv02))
    IN IF dot0 < dot1
       THEN (IF dot0 < dot2
             THEN [v0 |-> cv01, v1 |-> cv12, origin |-> t[1]]
             ELSE [v0 |-> cv12, v1 |-> cv02, origin |-> t[2]])
       ELSE (IF dot1 < dot2
             THEN [v0 |-> cv01, v1 |-> cv02, origin |-> t[1]]
             ELSE [v0 |-> cv12, v1 |-> cv02, origin |-> t[2]])

\* rot_m * d: the rotation that turns v0 onto the positive x axis, for v0
\* along an axis
rot_m(v0, d) ==
    CASE v0[2] = 0 /\ v0[1] > 0 -> d
      [] v0[1] = 0 /\ v0[2] > 0 -> <<d[2], -d[1]>>
      [] v0[2] = 0 /\ v0[1] < 0 -> <<-d[1], -d[2]>>
      [] OTHER -> <<-d[2], d[1]>>

\* w and h
gridWidth(t) == ceilDiv(norm(orthogonalVectors(t).v0), raster_size)
gridHeight(t) == ceilDiv(norm(orthogonalVectors(t).v1), raster_size)

\* idx = y * w + x of point p
gridIndex(t, p) ==
    LET f == orthogonalVectors(t)
        pv == rot_m(f.v0, minus2d(p, f.origin))
    IN truncDiv(pv[2], raster_size) * gridWidth(t) + truncDiv(pv[1], raster_size)

\* idx lies in the array grid
inGrid(t, i) == 0 <= i /\ i < gridWidth(t) * gridHeight(t)

\* the lattice points that are not on the unbounded side of the triangle
pointsInTriangle(t) ==
    LET side(a, b, p) == (b[1] - a[1]) * (p[2] - a[2]) - (b[2] - a[2]) * (p[1] - a[1])
        xs == {t[i][1] : i \in 1..3}
        ys == {t[i][2] : i \in 1..3}
    IN {p \in (0..SetMax(xs)) \X (0..SetMax(ys)) :
           \/ side(t[1], t[2], p) >= 0 /\ side(t[2], t[3], p) >= 0 /\ side(t[3], t[1], p) >= 0
           \/ side(t[1], t[2], p) <= 0 /\ side(t[2], t[3], p) <= 0 /\ side(t[3], t[1], p) <= 0}

\* counter * raster_size * raster_size, the cells outside the array holding
\* garbage before the call
rasterized_area(t, pts, garbage) ==
    LET idxs == {gridIndex(t, p) : p \in pts}
    IN Cardinality({i \in idxs : inGrid(t, i) \/ ~garbage[i]}) * raster_size * raster_size

\* the point sets of the next call: any few points of the triangle first,
\* then the points of the call before and one more
nextPoints ==
    IF areas = <<>>
    THEN {s \in SUBSET pointsInTriangle(triangle) : Cardinality(s) <= MaxRasterPoints}
    ELSE {areas[Len(areas)].pts \cup {q} :
             q \in pointsInTriangle(triangle) \ areas[Len(areas)].pts}

RasterIdle == triangle = <<>> /\ areas = <<>>

RasterStart == triangle \in Triangles /\ areas = <<>>

rasterFrame == <<csgVars, seedVars, pcVars, prVars, extVars>>

\* a call whose points all fall into the array
RasterArea ==
    /\ Len(areas) < 2
    /\ \E pts \in nextPoints :
          /\ \A p \in pts : inGrid(triangle, gridIndex(triangle, p))
          /\ areas' = Append(areas,
                 [pts |-> pts, area |-> rasterized_area(triangle, pts, <<>>)])
    /\ UNCHANGED triangle
    /\ UNCHANGED rasterFrame

\* a call that reads and writes outside the array and returns
RasterAreaOutside ==
    /\ Len(areas) < 2
    /\ \E pts \in nextPoints :
          LET outside == {i \in {gridIndex(triangle, p) : p \in pts} : ~inGrid(triangle, i)}
          IN /\ outside # {}
             /\ \E garbage \in [outside -> BOOLEAN] :
                   areas' = Append(areas,
                       [pts |-> pts, area |-> rasterized_area(triangle, pts, garbage)])
    /\ UNCHANGED triangle
    /\ UNCHANGED rasterFrame

\* a call that reads outside the array and faults: nothing is returned
RasterAreaFaults ==
    /\ Len(areas) < 2
    /\ \E pts \in nextPoints :
          /\ \E p \in pts : ~inGrid(triangle, gridIndex(triangle, p))
          /\ areas' = Append(areas, [pts |-> pts, area |-> -1])
    /\ UNCHANGED triangle
    /\ UNCHANGED rasterFrame

RasterNext == RasterArea \/ RasterAreaOutside \/ RasterAreaFaults

(***************************************************************************)
(* PrimitiveSetCreator::mutate and crossover on whole primitive sets,      *)
(* src/src/primitive_extraction.cpp.  The creator is the one               *)
(* extractPrimitivesWithGA builds: maxMutationIterations = 1 and           *)
(* maxCrossoverIterations = 1, so that each loop makes one pass.  Indices  *)
(* are 0-based as in the code; member k of a vector is element k + 1 of    *)
(* the sequence.                                                           *)
(***************************************************************************)
MaxGaCalls == 2

\* a creator of a cylinder and a sphere manifold
CylManifolds == <<CZ, SP>>

MutationType == {"NEW", "REPLACE", "MODIFY", "REMOVE", "ADD"}

\* the primitives createPrimitive can return that are not None
createdPrimitives == {p \in {o.p : o \in createPrimitive} : p.type # "None"}

\* create(): the sets it can return
createSets == UNION {[1..n -> createdPrimitives] : n \in 1..maxPrimitiveSetSize}

\* mutate(ps) having drawn mutation type mt: the sets it can return
mutate(pset, mt) ==
    IF mt = "NEW" \/ pset = <<>> THEN createSets
    ELSE CASE mt = "REPLACE" ->
                UNION {{[pset EXCEPT ![i] = IF o.p.type = "None" THEN pset[i] ELSE o.p] :
                           o \in createPrimitive} : i \in 1..Len(pset)}
           [] mt = "MODIFY" ->
                UNION {{[pset EXCEPT ![i] = IF newP.type = "None" THEN pset[i] ELSE newP] :
                           newP \in mutatePrimitive(pset[i])} : i \in 1..Len(pset)}
           [] mt = "ADD" ->
                {IF o.p.type = "None" THEN pset ELSE Append(pset, o.p) :
                    o \in createPrimitive}
           [] OTHER -> {pset}

\* crossover exchanging the two drawn members only
crossover_singleSwap(a, b, in, i, j) ==
    IF in \/ a = <<>> \/ b = <<>> \/ i = -1 \/ j = -1 THEN <<a, b>>
    ELSE <<[a EXCEPT ![i + 1] = b[j + 1]], [b EXCEPT ![j + 1] = a[i + 1]]>>

\* crossover(ps1, ps2) having drawn intra and the indices i in ps1, j in ps2
crossover(a, b, in, i, j) ==
    IF in \/ a = <<>> \/ b = <<>> \/ i = -1 \/ j = -1 THEN <<a, b>>
    ELSE LET m == IF Len(a) < Len(b) THEN Len(a) ELSE Len(b)
         IN <<[k \in 1..Len(a) |-> IF j <= k - 1 /\ k - 1 < m THEN b[k] ELSE a[k]],
              [k \in 1..Len(b) |-> IF i <= k - 1 /\ k - 1 < m THEN a[k] ELSE b[k]]>>

XoIdle ==
    /\ xoDone = FALSE
    /\ ps1 = <<>> /\ ps2 = <<>>
    /\ intra = FALSE
    /\ idx1 = -1 /\ idx2 = -1
    /\ newPS1 = <<>> /\ newPS2 = <<>>

PopIdle == population = <<>> /\ gaOp = "none" /\ gaCalls = 0

\* the arguments of one call of crossover: any two sets, empty ones included
XoStart ==
    /\ xoDone = FALSE
    /\ ps1 \in SeqsUpTo(createdPrimitives, maxPrimitiveSetSize) \cup {<<>>}
    /\ ps2 \in SeqsUpTo(createdPrimitives, maxPrimitiveSetSize) \cup {<<>>}
    /\ intra = FALSE
    /\ idx1 = -1 /\ idx2 = -1
    /\ newPS1 = <<>> /\ newPS2 = <<>>

xoFrame == <<csgVars, seedVars, pcVars, prVars, rasterVars, popVars, ddVars, tuneVars, treeVars, raceVars>>

\* crossover(ps1, ps2): the pass that draws intra, or meets an empty parent
XoCrossoverSkip ==
    /\ ~xoDone
    /\ \E in \in BOOLEAN :
          /\ in \/ ps1 = <<>> \/ ps2 = <<>>
          /\ intra' = in
    /\ xoDone' = TRUE
    /\ newPS1' = crossover(ps1, ps2, intra', -1, -1)[1]
    /\ newPS2' = crossover(ps1, ps2, intra', -1, -1)[2]
    /\ UNCHANGED <<ps1, ps2, idx1, idx2>>
    /\ UNCHANGED xoFrame

\* crossover(ps1, ps2): the pass that draws two indices
XoCrossoverSwap ==
    /\ ~xoDone
    /\ ps1 # <<>> /\ ps2 # <<>>
    /\ \E i \in 0..(Len(ps1) - 1), j \in 0..(Len(ps2) - 1) :
          /\ idx1' = i
          /\ idx2' = j
          /\ newPS1' = crossover(ps1, ps2, FALSE, i, j)[1]
          /\ newPS2' = crossover(ps1, ps2, FALSE, i, j)[2]
    /\ intra' = FALSE
    /\ xoDone' = TRUE
    /\ UNCHANGED <<ps1, ps2>>
    /\ UNCHANGED xoFrame

XoNext == XoCrossoverSkip \/ XoCrossoverSwap

\* the GA's population after initialisation: two sets create() returned
PopStart ==
    /\ population \in [1..2 -> createSets]
    /\ gaOp = "none"
    /\ gaCalls = 0

popFrame == <<csgVars, seedVars, pcVars, prVars, rasterVars, xoVars, ddVars, tuneVars, treeVars, raceVars>>

\* the GA mutates a member of the population
PopMutate ==
    /\ gaCalls < MaxGaCalls
    /\ \E s \in 1..2, mt \in MutationType :
          /\ gaOp' = mt
          /\ \E r \in mutate(population[s], mt) :
                population' = [population EXCEPT ![s] = r]
    /\ gaCalls' = gaCalls + 1
    /\ UNCHANGED popFrame

\* the GA crosses the two members of the population
PopCrossover ==
    /\ gaCalls < MaxGaCalls
    /\ \E in \in BOOLEAN,
          i \in 0..(Len(population[1]) - 1),
          j \in 0..(Len(population[2]) - 1) :
          population' = crossover(population[1], population[2], in, i, j)
    /\ gaOp' = "crossover"
    /\ gaCalls' = gaCalls + 1
    /\ UNCHANGED popFrame

PopNext == PopMutate \/ PopCrossover

(***************************************************************************)
(* The mutation type PrimitiveSetCreator::mutate draws.  The distribution  *)
(* dd is a static local of mutate: one object for the process, built from  *)
(* mutationDistribution of the creator whose call reaches the declaration  *)
(* first.  Two creators are given the two distributions of lines 236 and   *)
(* 237, in thousandths, indexed in the order NEW, REPLACE, MODIFY, REMOVE, *)
(* ADD.                                                                    *)
(***************************************************************************)
MaxMutateCalls == 3

Creators == {1, 2}

mutationTypes == <<"NEW", "REPLACE", "MODIFY", "REMOVE", "ADD">>

mutationDistribution == <<<<400, 150, 150, 150, 150>>, <<400, 150, 300, 0, 150>>>>

\* the types a discrete_distribution of the given weights can draw
support(weights) == {mutationTypes[k] : k \in {i \in 1..Len(weights) : weights[i] > 0}}

DdStart == dd = <<>> /\ drawn = <<>>

DdIdle == DdStart

ddFrame == <<csgVars, seedVars, pcVars, prVars, rasterVars, xoVars, popVars, tuneVars, treeVars, raceVars>>

\* mutate on creator c, up to the draw of the mutation type: dd is
\* initialised by the first call and used as it is by every later one
DdMutate ==
    /\ Len(drawn) < MaxMutateCalls
    /\ \E c \in Creators :
          /\ dd' = IF dd = <<>> THEN mutationDistribution[c] ELSE dd
          /\ \E mt \in support(dd') :
                drawn' = Append(drawn, [creator |-> c, mt |-> mt])
    /\ UNCHANGED ddFrame

DdNext == DdMutate

(***************************************************************************)
(* extractPrimitivesWithGA after the creator and the ranker are built:     *)
(* the GA ranks candidate sets, then each static primitive is ranked       *)
(* alone with either cutout flag, then the result is put together.  The    *)
(* static primitives are the sphere and cylinder primitives                *)
(* extractStaticManifolds builds.                                          *)
(***************************************************************************)
MaxStatic == 2

StaticPrimitive(t, f) ==
    [type |-> t, triangles |-> 0, area |-> 0, point_area |-> 0, fits |-> f,
     cutout |-> FALSE]

\* a cylinder close to the second point and a sphere close to the first
StaticPrimitives == {StaticPrimitive("Cylinder", {2}), StaticPrimitive("Sphere", {1})}

\* rank(ps, ignoreStaticPrimitives): the flag is passed on to rank2, which
\* does not read it
rankSet(pset, ignoreStaticPrimitives) == rank2(pset)

\* the pair bestRank, bestPrimitives after rank2 has ranked pset
tracked(best, pset) ==
    IF lessThan(best.rank, rank2(pset)) THEN [rank |-> rank2(pset), set |-> pset]
    ELSE best

\* the cutout flag set when the rank with cutout is not lower
tunedCutout_notLower(score, score_cutout) == ~lessThan(score_cutout, score)

\* the cutout flag the tuning loop gives a static primitive
tunedCutout(score, score_cutout) == lessThan(score, score_cutout)

TuneIdle ==
    /\ staticPrimitives = <<>>
    /\ phase = "idle"
    /\ gaRanks = 0
    /\ lastRank = <<>>
    /\ gaBest = <<>>
    /\ tuneScores = <<>>
    /\ resultPrimitives = <<>>

\* ga.run is entered
TuneStart ==
    /\ staticPrimitives \in SeqsUpTo(StaticPrimitives, MaxStatic) \cup {<<>>}
    /\ phase = "ga"
    /\ gaRanks = 0
    /\ lastRank = <<>>
    /\ gaBest = <<>>
    /\ tuneScores = <<>>
    /\ resultPrimitives = <<>>

tuneFrame == <<csgVars, seedVars, pcVars, rasterVars, xoVars, popVars, ddVars, treeVars, raceVars>>

\* the GA ranks a candidate set
TuneGaRank ==
    /\ phase = "ga"
    /\ gaRanks < MaxRankCalls
    /\ \E s \in RankedSets \ {<<>>} :
          /\ lastRank' = [ps |-> s, ignore |-> FALSE, r |-> rankSet(s, FALSE)]
          /\ bestRank' = tracked([rank |-> bestRank, set |-> bestPrimitives], s).rank
          /\ bestPrimitives' = tracked([rank |-> bestRank, set |-> bestPrimitives], s).set
    /\ gaRanks' = gaRanks + 1
    /\ UNCHANGED <<staticPrimitives, phase, gaBest, tuneScores, resultPrimitives, returned>>
    /\ UNCHANGED tuneFrame

\* ga.run returns
TuneGaReturn ==
    /\ phase = "ga"
    /\ gaRanks > 0
    /\ phase' = "tune"
    /\ gaBest' = bestPrimitives
    /\ UNCHANGED <<staticPrimitives, gaRanks, lastRank, tuneScores, resultPrimitives>>
    /\ UNCHANGED prVars
    /\ UNCHANGED tuneFrame

\* one pass of the loop over the static primitives
TuneStatic ==
    /\ phase = "tune"
    /\ Len(tuneScores) < Len(staticPrimitives)
    /\ LET p == staticPrimitives[Len(tuneScores) + 1]
           plain == <<[p EXCEPT !.cutout = FALSE]>>
           cut == <<[p EXCEPT !.cutout = TRUE]>>
           score == rankSet(plain, TRUE)
           score_cutout == rankSet(cut, TRUE)
           first == tracked([rank |-> bestRank, set |-> bestPrimitives], plain)
           second == tracked(first, cut)
       IN /\ tuneScores' = Append(tuneScores, [score |-> score, score_cutout |-> score_cutout])
          /\ staticPrimitives' =
                 [staticPrimitives EXCEPT
                     ![Len(tuneScores) + 1].cutout = tunedCutout(score, score_cutout)]
          /\ lastRank' = [ps |-> cut, ignore |-> TRUE, r |-> score_cutout]
          /\ bestRank' = second.rank
          /\ bestPrimitives' = second.set
    /\ UNCHANGED <<phase, gaRanks, gaBest, resultPrimitives, returned>>
    /\ UNCHANGED tuneFrame

\* the result is put together
TuneReturn ==
    /\ phase = "tune"
    /\ Len(tuneScores) = Len(staticPrimitives)
    /\ resultPrimitives' = bestPrimitives \o staticPrimitives
    /\ phase' = "done"
    /\ UNCHANGED <<staticPrimitives, gaRanks, lastRank, gaBest, tuneScores>>
    /\ UNCHANGED prVars
    /\ UNCHANGED tuneFrame

TuneNext == TuneGaRank \/ TuneGaReturn \/ TuneStatic \/ TuneReturn

(***************************************************************************)
(* The GA over CSG trees, src/src/csgnode_evo.cpp: a population of two     *)
(* trees that CSGNodeCreator::create() returned, on which mutate and       *)
(* crossover are called in any order.  The calls go on as long as the two  *)
(* trees together have at most MaxOps operations.                          *)
(***************************************************************************)
\* the number of operations of a binary tree
ops(node) == (numNodes(node) - 1) \div 2

\* the subtree coins left for a call on the population
coinsLeft == MaxOps - (ops(trees[1]) + ops(trees[2]))

TreeIdle == trees = <<>> /\ treeOp = "none"

\* the initial population: two trees of create()
TreeStart ==
    /\ trees \in [1..2 -> create(maxTreeDepth, 0)]
    /\ treeOp = "none"

treeFrame == <<csgVars, seedVars, pcVars, prVars, rasterVars, xoVars, popVars, ddVars, tuneVars, raceVars>>

\* mutate(node) on a member, create-new branch
TreeMutateNew ==
    /\ coinsLeft >= 0
    /\ \E s \in 1..2 :
       \E t \in create(maxTreeDepth, coinsLeft) :
          trees' = [trees EXCEPT ![s] = t]
    /\ treeOp' = "mutate"
    /\ UNCHANGED treeFrame

\* mutate(node) on a member, subtree replacement branch
TreeMutateReplace ==
    /\ coinsLeft >= 0
    /\ \E s \in 1..2 :
       \E nodeIdx \in 0..(numNodes(trees[s]) - 1) :
       \E sub \in create(maxSubtreeDepth(trees[s]), coinsLeft) :
          trees' = [trees EXCEPT ![s] = mutateAt(trees[s], nodeIdx, sub)]
    /\ treeOp' = "mutate"
    /\ UNCHANGED treeFrame

\* crossover(node1, node2) on the two members; both results enter the
\* population
TreeCrossover ==
    /\ coinsLeft >= 0
    /\ \E i1 \in 0..(numNodes(trees[1]) - 1), i2 \in 0..(numNodes(trees[2]) - 1) :
          trees' = crossoverAt(trees[1], trees[2], i1, i2)
    /\ treeOp' = "crossover"
    /\ UNCHANGED treeFrame

TreeNext == TreeMutateNew \/ TreeMutateReplace \/ TreeCrossover

(***************************************************************************)
(* Threads in PrimitiveSetRanker::rank2 on one ranker.  The rank is        *)
(* computed from the thread's own argument; the comparison with bestRank,  *)
(* the assignment to bestRank and the assignment to bestPrimitives are     *)
(* three accesses of shared members with no lock around them, so they      *)
(* interleave with those of the other threads.  Two threads that assign    *)
(* to the vector bestPrimitives at once may also bring the process down.   *)
(***************************************************************************)
MaxThreads == 2

Threads == 1..MaxThreads

\* the sets the threads rank: one primitive each
RaceSets == {<<p>> : p \in RankedPrimitives}

RaceIdle == thr = <<>>

\* the threads are started, one rank call each
RaceStart == thr \in [Threads -> {[at |-> "check", ps |-> s, r |-> rank2(s)] : s \in RaceSets}]

raceFrame == <<csgVars, seedVars, pcVars, rasterVars, xoVars, popVars, ddVars, tuneVars, treeVars>>

\* if (bestRank < r)
RaceCheck(t) ==
    /\ thr[t].at = "check"
    /\ thr' = [thr EXCEPT ![t].at = IF lessThan(bestRank, thr[t].r) THEN "bestRank" ELSE "done"]
    /\ UNCHANGED prVars
    /\ UNCHANGED raceFrame

\* bestRank = r
RaceWriteRank(t) ==
    /\ thr[t].at = "bestRank"
    /\ bestRank' = thr[t].r
    /\ thr' = [thr EXCEPT ![t].at = "bestPrimitives"]
    /\ UNCHANGED <<bestPrimitives, returned>>
    /\ UNCHANGED raceFrame

\* bestPrimitives = ps
RaceWriteSet(t) ==
    /\ thr[t].at = "bestPrimitives"
    /\ bestPrimitives' = thr[t].ps
    /\ thr' = [thr EXCEPT ![t].at = "done"]
    /\ UNCHANGED <<bestRank, returned>>
    /\ UNCHANGED raceFrame

\* bestPrimitives = ps while another thread assigns to the same vector:
\* the process is brought down
RaceWriteSetFaults(t) ==
    /\ thr[t].at = "bestPrimitives"
    /\ \E u \in Threads \ {t} : thr[u].at = "bestPrimitives"
    /\ thr' = [u \in Threads |-> [thr[u] EXCEPT !.at = "fault"]]
    /\ UNCHANGED prVars
    /\ UNCHANGED raceFrame

RaceNext ==
    \E t \in Threads :
       RaceCheck(t) \/ RaceWriteRank(t) \/ RaceWriteSet(t) \/ RaceWriteSetFaults(t)

ExtIdle == XoIdle /\ PopIdle /\ DdIdle /\ TuneIdle /\ TreeIdle /\ RaceIdle

PrimIdle == SeedIdle /\ PcIdle /\ PrIdle /\ RasterIdle /\ ExtIdle

(***************************************************************************)
(* The specifications.                                                     *)
(***************************************************************************)
\* One call of a CSGNodeCreator method on arbitrary argument trees.
EvoInit == EvoStart /\ NoPoints /\ RankIdle /\ CliqueIdle /\ MergeIdle /\ RunIdle /\ PrimIdle
EvoNext == Create \/ MutateNew \/ MutateReplace \/ Crossover
Spec == EvoInit /\ [][EvoNext]_vars

\* One ranker ranking two trees of equal geometry score.
RankInit == RankStart /\ EvoIdle /\ CliqueIdle /\ MergeIdle /\ RunIdle /\ PrimIdle
RankNext == RankPair
SpecRank == RankInit /\ [][RankNext]_vars

\* One call of computeNodesForCliques.
CliqueInit == CliqueStart /\ EvoIdle /\ RankIdle /\ MergeIdle /\ RunIdle /\ PrimIdle
SpecClique == CliqueInit /\ [][CliqueNext]_vars

\* One call of mergeCSGNodeClique; the calling thread keeps running.
MergeInit == MergeStart /\ EvoIdle /\ NoPoints /\ RankIdle /\ CliqueIdle /\ RunIdle /\ PrimIdle
SpecMerge == MergeInit /\ [][MergeNext]_vars /\ WF_vars(MergeNext)

\* Two runs of a creator on the same inputs, each with its own engine.
SeedInit ==
    /\ SeedIdle /\ PcIdle /\ PrIdle /\ RasterIdle /\ ExtIdle
    /\ EvoIdle /\ NoPoints /\ RankIdle /\ CliqueIdle /\ MergeIdle /\ RunIdle
SpecSeed == SeedInit /\ [][SeedNext]_vars

\* Calls of createPrimitive and of mutate on a creator of planes and a sphere.
PrimInit ==
    /\ ms = BoxManifolds /\ pcFresh /\ SeedIdle /\ PrIdle /\ RasterIdle /\ ExtIdle
    /\ EvoIdle /\ NoPoints /\ RankIdle /\ CliqueIdle /\ MergeIdle /\ RunIdle
SpecPrim == PrimInit /\ [][PrimNext]_vars

\* One call of create() on a creator of few manifolds.
CreateInit ==
    /\ ms \in SmallManifoldSets /\ pcFresh /\ SeedIdle /\ PrIdle /\ RasterIdle /\ ExtIdle
    /\ EvoIdle /\ NoPoints /\ RankIdle /\ CliqueIdle /\ MergeIdle /\ RunIdle
SpecCreate == CreateInit /\ [][CreateNext]_vars

\* Calls of rank on one primitive set ranker.
PrInit ==
    /\ PrStart /\ SeedIdle /\ PcIdle /\ RasterIdle /\ ExtIdle
    /\ EvoIdle /\ NoPoints /\ RankIdle /\ CliqueIdle /\ MergeIdle /\ RunIdle
SpecPrimRank == PrInit /\ [][PrNext]_vars

\* Two calls of get_rasterized_area on one triangle, the second with one
\* point more.
RasterInit ==
    /\ RasterStart /\ SeedIdle /\ PcIdle /\ PrIdle /\ ExtIdle
    /\ EvoIdle /\ NoPoints /\ RankIdle /\ CliqueIdle /\ MergeIdle /\ RunIdle
SpecRaster == RasterInit /\ [][RasterNext]_vars

\* One call of PrimitiveSetCreator::crossover on arbitrary argument sets.
XoInit ==
    /\ ms = CylManifolds /\ pcFresh /\ XoStart /\ PopIdle /\ DdIdle /\ TuneIdle /\ TreeIdle /\ RaceIdle
    /\ SeedIdle /\ PrIdle /\ RasterIdle
    /\ EvoIdle /\ NoPoints /\ RankIdle /\ CliqueIdle /\ MergeIdle /\ RunIdle
SpecCross == XoInit /\ [][XoNext]_vars

\* The GA's calls of mutate and crossover on a population of two sets.
PopInit ==
    /\ ms = CylManifolds /\ pcFresh /\ PopStart /\ XoIdle /\ DdIdle /\ TuneIdle /\ TreeIdle /\ RaceIdle
    /\ SeedIdle /\ PrIdle /\ RasterIdle
    /\ EvoIdle /\ NoPoints /\ RankIdle /\ CliqueIdle /\ MergeIdle /\ RunIdle
SpecPop == PopInit /\ [][PopNext]_vars

\* Calls of mutate on two creators of different mutation distributions.
DdInit ==
    /\ DdStart /\ XoIdle /\ PopIdle /\ TuneIdle /\ TreeIdle /\ RaceIdle
    /\ SeedIdle /\ PcIdle /\ PrIdle /\ RasterIdle
    /\ EvoIdle /\ NoPoints /\ RankIdle /\ CliqueIdle /\ MergeIdle /\ RunIdle
SpecMutationType == DdInit /\ [][DdNext]_vars

\* One call of create() that runs as long as its loop does.  The thread
\* keeps running (weak fairness of every step), and a draw that has a
\* positive probability in every pass is not missed forever (strong
\* fairness of the pass that stores a primitive).
CreateLiveInit ==
    /\ ms \in LiveManifoldSets /\ pcFresh /\ SeedIdle /\ PrIdle /\ RasterIdle /\ ExtIdle
    /\ EvoIdle /\ NoPoints /\ RankIdle /\ CliqueIdle /\ MergeIdle /\ RunIdle
SpecCreateLive ==
    /\ CreateLiveInit /\ [][CreateLiveNext]_vars
    /\ WF_vars(CreateLiveNext)
    /\ SF_vars(PcCreatePass /\ Len(ps') > Len(ps))

\* One call of extractPrimitivesWithGA from ga.run on.
TuneInit ==
    /\ TuneStart /\ PrStart /\ XoIdle /\ PopIdle /\ DdIdle /\ TreeIdle /\ RaceIdle
    /\ SeedIdle /\ PcIdle /\ RasterIdle
    /\ EvoIdle /\ NoPoints /\ RankIdle /\ CliqueIdle /\ MergeIdle /\ RunIdle
SpecExtract == TuneInit /\ [][TuneNext]_vars

\* The GA's calls of mutate and crossover on a population of two CSG trees.
TreeInit ==
    /\ maxTreeDepth \in 0..MaxDepth /\ call = "idle"
    /\ node1 = opNo /\ node2 = opNo /\ nodeIdx1 = -1 /\ nodeIdx2 = -1
    /\ createNew = FALSE /\ result = <<>>
    /\ TreeStart /\ XoIdle /\ PopIdle /\ DdIdle /\ TuneIdle /\ RaceIdle
    /\ SeedIdle /\ PcIdle /\ PrIdle /\ RasterIdle
    /\ NoPoints /\ RankIdle /\ CliqueIdle /\ MergeIdle /\ RunIdle
SpecTreePop == TreeInit /\ [][TreeNext]_vars

\* Threads ranking one primitive set each on the same ranker.
RaceInit ==
    /\ RaceStart /\ PrStart /\ XoIdle /\ PopIdle /\ DdIdle /\ TuneIdle /\ TreeIdle
    /\ SeedIdle /\ PcIdle /\ RasterIdle
    /\ EvoIdle /\ NoPoints /\ RankIdle /\ CliqueIdle /\ MergeIdle /\ RunIdle
SpecRace == RaceInit /\ [][RaceNext]_vars

\* One call of PipelineRunner::run.
RunInit == RunStart /\ EvoIdle /\ NoPoints /\ RankIdle /\ CliqueIdle /\ MergeIdle /\ PrimIdle
SpecRun == RunInit /\ [][RunNext]_vars

(***************************************************************************)
(* The claims.                                                             *)
(***************************************************************************)
\* C1 as stated: for every tree given to mutate, with _maxTreeDepth >= 0, the
\* tree mutate returns has depth <= _maxTreeDepth, whichever branch is taken.
C1_MutateDepthOfAnyTree ==
    call = "mutate" => depth(result[1]) <= maxTreeDepth

\* C1 amended: when the tree given to mutate has depth <= _maxTreeDepth, the
\* tree mutate returns has depth <= _maxTreeDepth, whichever branch is taken.
C1_MutateDepth ==
    (call = "mutate" /\ depth(node1) <= maxTreeDepth)
        => (Len(result) = 1 /\ depth(result[1]) <= maxTreeDepth)

\* A leaf below the root of a shallower tree is replaced by a subtree that
\* uses the whole remaining depth.
C1_Witness ==
    /\ call = "mutate" /\ ~createNew
    /\ nodeIdx1 > 0
    /\ depth(node1) < maxTreeDepth
    /\ depth(result[1]) = maxTreeDepth

\* C2: crossover(a, b) returns exactly two trees: a with its chosen subtree
\* replaced by b's chosen subtree, or a itself when that exceeds the maximum
\* depth, and b with its chosen subtree replaced by a's chosen subtree, or b
\* itself when that exceeds the maximum depth.
C2_CrossoverFallsBackPerSide ==
    call = "crossover" =>
        LET new1 == assignAt(node1, nodeIdx1, nodeAt(node2, nodeIdx2))
            new2 == assignAt(node2, nodeIdx2, nodeAt(node1, nodeIdx1))
        IN  result = << IF depth(new1) <= maxTreeDepth THEN new1 ELSE node1,
                        IF depth(new2) <= maxTreeDepth THEN new2 ELSE node2 >>

\* C3 as stated: the two trees crossover returns together have
\* numNodes(a) + numNodes(b) nodes, also when a depth fallback is taken.
C3_CrossoverSizeWithFallback ==
    call = "crossover" =>
        numNodes(result[1]) + numNodes(result[2]) = numNodes(node1) + numNodes(node2)

\* C3 amended: when neither swapped tree exceeds the maximum depth (no
\* fallback on either side), the two trees crossover returns together have
\* numNodes(a) + numNodes(b) nodes.
C3_CrossoverSize ==
    ( /\ call = "crossover"
      /\ depth(assignAt(node1, nodeIdx1, nodeAt(node2, nodeIdx2))) <= maxTreeDepth
      /\ depth(assignAt(node2, nodeIdx2, nodeAt(node1, nodeIdx1))) <= maxTreeDepth )
        => ( /\ Len(result) = 2
             /\ numNodes(result[1]) + numNodes(result[2])
                    = numNodes(node1) + numNodes(node2) )

\* Subtrees of different sizes are swapped and both results are kept.
C3_Witness ==
    /\ call = "crossover"
    /\ depth(assignAt(node1, nodeIdx1, nodeAt(node2, nodeIdx2))) <= maxTreeDepth
    /\ depth(assignAt(node2, nodeIdx2, nodeAt(node1, nodeIdx1))) <= maxTreeDepth
    /\ numNodes(nodeAt(node1, nodeIdx1)) # numNodes(nodeAt(node2, nodeIdx2))
    /\ numNodes(result[1]) # numNodes(node1)

\* C4: for a clique of exactly two primitives A and B the entry pushed is one
\* of Union(A,B), Intersection(A,B), Difference(A,B), Difference(B,A) whose
\* rank is >= the rank of each of the other three, and no GA run is made for it.
C4_PairOptimal ==
    (cqIdx > 0 /\ Len(geometryCliques[cqIdx]) = 2) =>
        LET c == geometryCliques[cqIdx]
            e == res[Len(res)]
            four == << Operation("Union", Geometry(c[1]), Geometry(c[2])),
                       Operation("Intersection", Geometry(c[1]), Geometry(c[2])),
                       Operation("Difference", Geometry(c[1]), Geometry(c[2])),
                       Operation("Difference", Geometry(c[2]), Geometry(c[1])) >>
        IN  /\ e.clique = c
            /\ \E i \in 1..4 :
                  /\ e.node = four[i]
                  /\ \A j \in 1..4 : ~Less(ranks[i], ranks[j])
            /\ \A k \in 1..Len(gaRuns) : Len(gaRuns[k].shapes) # 2

\* A pair clique was processed whose best candidate is neither the first nor
\* tied with all others.
C4_Witness ==
    /\ cqIdx > 0 /\ Len(geometryCliques[cqIdx]) = 2
    /\ res[Len(res)].node.op = "Difference"
    /\ \E j \in 1..4 : Less(ranks[j], ranks[3])

\* C5: computeNodesForCliques returns one (clique, tree) entry per non-empty
\* input clique, in input order, and none for an empty clique: a leaf of the
\* primitive for one primitive, one of the four binary candidates for two,
\* and the tree returned by the GA run for three or more.
C5_OneEntryPerClique ==
    LET done == SubSeq(geometryCliques, 1, cqIdx)
        nonEmpty == SelectSeq(done, LAMBDA c : Len(c) > 0)
        gaBefore(i) == Cardinality({k \in 1..i : Len(nonEmpty[k]) >= 3})
    IN  /\ cqPc = "returned" => cqIdx = Len(geometryCliques)
        /\ Len(res) = Len(nonEmpty)
        /\ Len(gaRuns) = gaBefore(Len(nonEmpty))
        /\ \A i \in 1..Len(res) :
              LET c == nonEmpty[i]
                  n == res[i].node
              IN  /\ res[i].clique = c
                  /\ Len(c) = 1 => n = Geometry(c[1])
                  /\ Len(c) = 2 =>
                        \/ n.op \in {"Union", "Intersection", "Difference"}
                           /\ n.childs = <<Geometry(c[1]), Geometry(c[2])>>
                        \/ n.op = "Difference"
                           /\ n.childs = <<Geometry(c[2]), Geometry(c[1])>>
                  /\ Len(c) >= 3 =>
                        /\ gaRuns[gaBefore(i)].shapes = c
                        /\ n = gaRuns[gaBefore(i)].node

\* The call returned for a list that holds an empty clique and a clique of
\* three primitives.
C5_Witness ==
    /\ cqPc = "returned"
    /\ \E i, j \in 1..Len(geometryCliques) :
          Len(geometryCliques[i]) = 0 /\ Len(geometryCliques[j]) >= 3
    /\ Len(res) = 1

\* C6: for every non-empty list of per-clique trees mergeCSGNodeClique
\* terminates and returns a single merged tree.
C6_MergeReturns == <>(mpc = "returned")

\* C7 as stated: for two trees of identical geometry score ranked by a ranker
\* whose lambda is lambdaBasedOnPoints of any primitive list (any total point
\* count), rank(T) < rank(T') iff numNodes(T) > numNodes(T').
C7_SizePressureAnyPoints ==
    rkNodes # <<>> =>
        (Less(rkRanks[1], rkRanks[2]) <=> numNodes(rkNodes[1]) > numNodes(rkNodes[2]))

\* C7 amended: the same, for a primitive list with a total point count of at
\* least 2.
C7_SizePressure ==
    (rkNodes # <<>> /\ points["A"] + points["B"] >= 2) =>
        (Less(rkRanks[1], rkRanks[2]) <=> numNodes(rkNodes[1]) > numNodes(rkNodes[2]))

\* With two points in total, the larger of two equally scored trees got the
\* lower rank.
C7_Witness ==
    /\ rkNodes # <<>> /\ points["A"] + points["B"] >= 2
    /\ numNodes(rkNodes[1]) > numNodes(rkNodes[2])
    /\ Less(rkRanks[1], rkRanks[2])

\* C8: when the loaded tree is a single Noop operator, or loading failed, run
\* returns 1 before any deduplication, redundancy removal, decomposition or
\* optimiser call is made.
C8_NoopGuard ==
    (treeFile = <<>> \/ treeFile[1].op = "Noop") =>
        /\ \A i \in 1..Len(stages) :
              stages[i] \notin {"filter_name_duplicates", "remove_redundancies",
                                "optimize_with_decomposition", "optimize"}
        /\ rpc \notin {"start", "loaded"} => (rpc = "returned" /\ exitCode = 1)

\* The tree file holds a Noop operator and run has returned.
C8_Witness ==
    /\ treeFile # <<>> /\ treeFile[1].op = "Noop"
    /\ rpc = "returned" /\ exitCode = 1

\* C9 as stated: run returns 1 when the tree cannot be loaded, when the
\* optimiser name is none of the four, or when the optimised result is a Noop
\* operation; every other run that returns, returns 0.
C9_ExitCodesAsStated ==
    rpc = "returned" =>
        /\ exitCode \in {0, 1}
        /\ exitCode = 1 <=>
              \/ treeFile = <<>> \/ treeFile[1].op = "Noop"
              \/ pp.optimizer \notin Optimizers
              \/ optResult # <<>> /\ optResult[1].op = "Noop"

\* C9 amended: run returns 1 when load yields a Noop node (load failure or a
\* Noop tree), when decomposition or optimisation raises an exception (the
\* unknown optimiser name is one such), or when the optimised result is a Noop
\* operation; every other run that returns, returns 0.
C9_ExitCodes ==
    rpc = "returned" =>
        /\ exitCode \in {0, 1}
        /\ exitCode = 1 <=>
              \/ treeFile = <<>> \/ treeFile[1].op = "Noop"
              \/ raised \in {"decompose", "optimize"}
              \/ optResult # <<>> /\ optResult[1].op = "Noop"
        /\ pp.optimizer \notin Optimizers => exitCode = 1

\* One of the four optimizers raised on a loaded tree and run returned 1.
C9_Witness ==
    /\ rpc = "returned" /\ exitCode = 1
    /\ treeFile # <<>> /\ treeFile[1].op # "Noop"
    /\ pp.optimizer \in Optimizers
    /\ raised = "optimize"

\* C10: an exception raised by name deduplication, redundancy removal before
\* optimisation, decomposition, optimisation or redundancy removal after
\* optimisation is caught by run, which returns a non-zero exit code.
C10_StageErrorsCaught ==
    raised # "none" =>
        (~propagated /\ rpc = "returned" /\ exitCode \notin {-1, 0})

\* the pipeline functions on the call record, without the writers of files
coreStages ==
    SelectSeq(stages, LAMBDA s : s \notin {"writeNode", "save_as_obj_mesh"})

\* position of a pipeline function in the order the spec gives:
\* load, dedup, binarise, (redundancy removal), (decompose), optimise,
\* (redundancy removal)
statedRank(core, i) ==
    CASE core[i] = "fromJSONFile" -> 1
      [] core[i] = "filter_name_duplicates" -> 2
      [] core[i] = "to_binary_tree" -> 3
      [] core[i] = "optimize_with_decomposition" -> 5
      [] core[i] = "optimize" -> 6
      [] OTHER -> IF \E j \in 1..(i - 1) : core[j] = "optimize" THEN 7 ELSE 4

\* position of a pipeline function in the order load, binarise, dedup,
\* (redundancy removal), (decompose), optimise, (redundancy removal)
codeRank(core, i) ==
    CASE core[i] = "fromJSONFile" -> 1
      [] core[i] = "to_binary_tree" -> 2
      [] core[i] = "filter_name_duplicates" -> 3
      [] core[i] = "optimize_with_decomposition" -> 5
      [] core[i] = "optimize" -> 6
      [] OTHER -> IF \E j \in 1..(i - 1) : core[j] = "optimize" THEN 7 ELSE 4

\* the last call on the record writes the output (graph, then the mesh when
\* meshes are saved), after every pipeline function
emitsLast ==
    LET n == Len(stages)
        w == IF pp.save_meshes THEN n - 1 ELSE n
    IN  /\ w >= 1 /\ stages[w] = "writeNode"
        /\ pp.save_meshes => stages[n] = "save_as_obj_mesh"
        /\ \A i \in w..n : stages[i] \in {"writeNode", "save_as_obj_mesh"}

\* a run that returns 0 has made every stage its parameters ask for
allStagesMade ==
    LET core == coreStages
        count(name) == Cardinality({i \in 1..Len(core) : core[i] = name})
    IN  /\ count("fromJSONFile") = 1
        /\ count("to_binary_tree") = 1
        /\ count("filter_name_duplicates") = 1
        /\ count("remove_redundancies") = IF pp.use_redundancy_removal THEN 2 ELSE 0
        /\ count("optimize_with_decomposition") = IF pp.use_decomposition THEN 1 ELSE 0
        /\ count("optimize") >= 1
        /\ (\E i \in 1..Len(core) : codeRank(core, i) = 7) <=> pp.use_redundancy_removal

C12_SameChoices ==
    Len(choices[1]) = Len(choices[2]) => choices[1] = choices[2]

\* C13: every Box primitive returned by createPrimitive or mutatePrimitive
\* has six planes in the pairs (1,2), (3,4), (5,6); the two planes of a pair
\* are parallel within angleEpsilon and at least
\* minDistanceBetweenParallelPlanes apart; planes of different pairs
\* enclose an angle of at least pi/2 - angleEpsilon, that is, the cosine of
\* their angle is at most sin(angleEpsilon) in absolute value.  (A Box is
\* returned only when its polytope is not empty.)
C13_BoxWellFormed ==
    (pcOp \in {"createPrimitive", "MODIFY"} /\ primitive.type = "Box") =>
        /\ Len(primitive.ms) = 6
        /\ \A i \in {1, 3, 5} :
              /\ absDot(primitive.ms[i].n, primitive.ms[i + 1].n) > cos_e
              /\ absDot(minus(primitive.ms[i].p, primitive.ms[i + 1].p),
                        primitive.ms[i + 1].n) >= minDistanceBetweenParallelPlanes
        /\ \A i, j \in 1..6 :
              ((i + 1) \div 2 # (j + 1) \div 2) =>
                  absDot(primitive.ms[i].n, primitive.ms[j].n) <= sin_e

\* C14: the set create() returns has between 1 and maxPrimitiveSetSize
\* members and none of them is None.
C14_CreateNoNone ==
    pcOp = "created" =>
        /\ 1 <= Len(ps) /\ Len(ps) <= maxPrimitiveSetSize
        /\ \A i \in 1..Len(ps) : ps[i].type # "None"

\* create() has returned after createPrimitive failed at least once
C14_Witness ==
    /\ pcOp = "created"
    /\ attempts > Len(ps)
    /\ Len(ps) = maxPrimitiveSetSize

\* C19: the type mapping of createPrimitive sends Sphere to Sphere: when the
\* manifold type drawn is Sphere, the creator holding a sphere manifold,
\* createPrimitive returns a Sphere primitive built from a sphere manifold.
C19_SphereSelectable ==
    (pcOp = "createPrimitive" /\ mtype = "Sphere") =>
        /\ primitive.type = "Sphere"
        /\ Len(primitive.ms) = 1
        /\ primitive.ms[1].type = "Sphere"

\* C20 as stated: a MODIFY mutation of a Sphere member leaves the set
\* unchanged in every field, the cutout flag included.
C20_SphereModifyNoop ==
    (pcOp = "MODIFY" /\ psArg[pIdx].type = "Sphere") => newPS = psArg

\* C20, amended: a MODIFY mutation of a Sphere member leaves every other
\* member unchanged and the Sphere unchanged in every field except its cutout
\* flag, which is drawn anew.
C20_SphereModifyKeepsAllButCutout ==
    (pcOp = "MODIFY" /\ psArg[pIdx].type = "Sphere") =>
        /\ Len(newPS) = Len(psArg)
        /\ \A k \in 1..Len(psArg) : k # pIdx => newPS[k] = psArg[k]
        /\ newPS[pIdx].type = psArg[pIdx].type
        /\ newPS[pIdx].ms = psArg[pIdx].ms

\* a MODIFY mutation of a Sphere member of a set of two changed its cutout
\* flag
C20_Witness ==
    /\ pcOp = "MODIFY"
    /\ Len(psArg) = 2
    /\ psArg[pIdx].type = "Sphere"
    /\ newPS[pIdx].cutout # psArg[pIdx].cutout

\* C15: after any calls of rank, bestPrimitiveSet() is a set that was the
\* argument of one of the calls, and the rank that call returned is greater
\* than or equal to every rank returned so far.
C15_BestIsArgmax ==
    returned # <<>> =>
        \E i \in 1..Len(returned) :
            /\ returned[i].ps = bestPrimitives
            /\ \A j \in 1..Len(returned) :
                  ~returned[i].r.nan /\ ~returned[j].r.nan /\ returned[i].r.v >= returned[j].r.v

\* C16: the rank returned for an empty set is strictly lower than the rank
\* returned for every non-empty set.
C16_EmptyRanksLowest ==
    \A i, j \in 1..Len(returned) :
        (returned[i].ps = <<>> /\ returned[j].ps # <<>>) =>
            lessThan(returned[i].r, returned[j].r)

\* C17: when both calls returned, the area of the second call, whose points
\* are those of the first and one more, is not smaller than the area of the
\* first.
C17_AreaMonotone ==
    (Len(areas) = 2 /\ areas[1].area # -1 /\ areas[2].area # -1) =>
        areas[2].area >= areas[1].area

\* a tree whose operation nodes are Union, Intersection or Difference with
\* exactly two children and whose leaves are Geometry nodes of the creator's
\* functions
RECURSIVE wellFormedTree(_)
wellFormedTree(n) ==
    IF n.op = "Geometry"
    THEN n.func \in Functions /\ n.childs = <<>>
    ELSE /\ n.op \in {"Union", "Intersection", "Difference"}
         /\ Len(n.childs) = 2
         /\ \A i \in 1..Len(n.childs) : wellFormedTree(n.childs[i])

\* C18: every tree returned by create, mutate or crossover (called on trees
\* of that form) has only Union, Intersection and Difference operation
\* nodes, each with exactly two children, and Geometry leaves of the
\* creator's functions; create with maximum depth 0 returns a single leaf.
C18_TreesWellFormed ==
    call # "none" =>
        /\ \A i \in 1..Len(result) : wellFormedTree(result[i])
        /\ (call = "create" /\ maxTreeDepth = 0) => result[1].op = "Geometry"

\* a crossover whose two results both hold two operation nodes
C18_Witness ==
    /\ call = "crossover"
    /\ Len(result) = 2
    /\ numNodes(result[1]) = 5
    /\ numNodes(result[2]) = 5

\* C21: a non-intra crossover(a, b) that drew the indices i in a and j in b
\* returns a' and b' of the sizes of a and b, with a'[k] = b[k] for
\* j <= k < min(|a|,|b|) and a'[k] = a[k] elsewhere, and b'[k] = a[k] for
\* i <= k < min(|a|,|b|) and b'[k] = b[k] elsewhere; with an empty parent
\* both are returned unchanged.
C21_CrossoverRangeSwap ==
    xoDone =>
      LET m == IF Len(ps1) < Len(ps2) THEN Len(ps1) ELSE Len(ps2)
      IN /\ (ps1 = <<>> \/ ps2 = <<>>) => (newPS1 = ps1 /\ newPS2 = ps2)
         /\ (~intra /\ ps1 # <<>> /\ ps2 # <<>>) =>
              /\ idx1 \in 0..(Len(ps1) - 1)
              /\ idx2 \in 0..(Len(ps2) - 1)
              /\ Len(newPS1) = Len(ps1)
              /\ Len(newPS2) = Len(ps2)
              /\ \A k \in 0..(Len(ps1) - 1) :
                    newPS1[k + 1] = IF idx2 <= k /\ k < m THEN ps2[k + 1] ELSE ps1[k + 1]
              /\ \A k \in 0..(Len(ps2) - 1) :
                    newPS2[k + 1] = IF idx1 <= k /\ k < m THEN ps1[k + 1] ELSE ps2[k + 1]

\* a crossover that copied a range of two members into the first set and
\* left the first member of the second set in place
C21_Witness ==
    /\ xoDone /\ ~intra
    /\ Len(ps1) = 2 /\ Len(ps2) = 2
    /\ idx1 = 1 /\ idx2 = 0
    /\ ps1[1] # ps2[1] /\ ps1[2] # ps2[2]
    /\ newPS1 = ps2
    /\ newPS2 = <<ps2[1], ps1[2]>>

\* C26: after any sequence of mutate and crossover calls on sets that
\* create() produced, every primitive set of the population has at least 1
\* and at most max_set_size members and holds no None primitive.
C26_SetSizeBounds ==
    \A s \in 1..Len(population) :
       /\ 1 <= Len(population[s])
       /\ Len(population[s]) <= maxPrimitiveSetSize
       /\ \A k \in 1..Len(population[s]) : population[s][k].type # "None"

\* C24: the mutation type a call of mutate draws has a positive weight in
\* the mutation distribution of the creator the call is made on, whichever
\* creator was used first.
C24_OwnDistribution ==
    \A k \in 1..Len(drawn) :
       drawn[k].mt \in support(mutationDistribution[drawn[k].creator])

\* C27: a call of create() on a creator of a non-empty manifold set
\* returns: its fill loop eventually reaches the set size drawn.
C27_CreateTerminates == (pcOp = "create" /\ ms # <<>>) ~> (pcOp = "created")

\* C22: rank(S, false) scores S together with the static primitives: its
\* geometry score counts the points that are close to a member of S or to
\* a static primitive; rank(S, true) scores S alone.
C22_RankUsesStatic ==
    gaRanks > 0 =>
      LET S == lastRank.ps
          area_score == quotient(summed(S, 1, "point_area"), summed(S, 1, "area"))
          geo_alone == quotient(validPoints(S), Cardinality(CloudPoints))
          geo_static == quotient(validPoints(S \o staticPrimitives), Cardinality(CloudPoints))
      IN lastRank.r = IF lastRank.ignore THEN plus(area_score, geo_alone)
                      ELSE plus(area_score, geo_static)

\* C23: after the GA loop each static primitive has been ranked alone with
\* cutout = false and with cutout = true, and its cutout flag is set exactly
\* if the rank with cutout is the higher one; with equal ranks it is false.
C23_CutoutOfHigherRank ==
    /\ Len(tuneScores) <= Len(staticPrimitives)
    /\ \A k \in 1..Len(tuneScores) :
          /\ staticPrimitives[k].cutout = lessThan(tuneScores[k].score, tuneScores[k].score_cutout)
          /\ tuneScores[k].score = tuneScores[k].score_cutout => ~staticPrimitives[k].cutout
          /\ tuneScores[k].score = rank2(<<[staticPrimitives[k] EXCEPT !.cutout = FALSE]>>)
          /\ tuneScores[k].score_cutout = rank2(<<[staticPrimitives[k] EXCEPT !.cutout = TRUE]>>)
    /\ phase = "done" => Len(tuneScores) = Len(staticPrimitives)

\* two static primitives tuned, both left without cutout
C23_Witness ==
    /\ phase = "done"
    /\ Len(tuneScores) = 2
    /\ staticPrimitives[1].type = "Cylinder" /\ ~staticPrimitives[1].cutout
    /\ staticPrimitives[2].type = "Sphere" /\ ~staticPrimitives[2].cutout

\* C29: the list extractPrimitivesWithGA returns is the best set found
\* while the GA ranked its candidates, followed by the static primitives,
\* each once; the rank calls of the cutout tuning leave the best set as it
\* was.
C29_ResultIsGaBestPlusStatic ==
    /\ phase \in {"tune", "done"} => bestPrimitives = gaBest
    /\ phase = "done" => resultPrimitives = gaBest \o staticPrimitives

\* a result of a best set of the GA and two tuned static primitives
C29_Witness ==
    /\ phase = "done"
    /\ gaBest # <<>>
    /\ Len(tuneScores) = 2
    /\ Len(resultPrimitives) = Len(gaBest) + 2

\* C25: after any sequence of mutate and crossover calls on trees that
\* create() produced with maximum depth D, every tree of the population,
\* both outputs of every crossover included, has depth <= D.
C25_PopulationDepth ==
    \A s \in 1..Len(trees) : depth(trees[s]) <= maxTreeDepth

\* a crossover whose outputs are in the population, one of them of the
\* maximum depth
C25_Witness ==
    /\ treeOp = "crossover"
    /\ maxTreeDepth = 2
    /\ depth(trees[1]) = 2
    /\ trees[1] # trees[2]

\* C28: when all concurrent calls of rank have finished and no rank is NaN,
\* bestRank is the maximum of the ranks returned and bestPrimitives is a
\* set that a call ranked with that rank.
C28_ConcurrentBest ==
    (\A t \in Threads : thr[t].at = "done" /\ ~thr[t].r.nan) =>
       /\ \A t \in Threads : ~lessThan(bestRank, thr[t].r)
       /\ \E t \in Threads : bestRank = thr[t].r /\ bestPrimitives = thr[t].ps

\* C30: within one run, once sample_if_empty has filled cit_sampling no
\* later step of the run modifies it: the sets are not generated again for
\* the decomposition or for the redundancy removal after the optimisation,
\* which so works on the sets generated before the optimisation.
C30_SamplesGeneratedOnce ==
    [][ ~cit_sampling.empty => cit_sampling' = cit_sampling ]_vars

\* a run that removed redundancies with CIT points before and after a
\* decomposition with CIT points: three calls of sample_if_empty, one
\* generation
C30_Witness ==
    /\ rpc = "returned" /\ exitCode = 0
    /\ pp.use_redundancy_removal /\ pp.use_cit_points_for_redundancy_removal
    /\ pp.use_decomposition /\ pp.use_cit_points_for_decomposition
    /\ ~cit_sampling.empty
    /\ cit_sampling.gens = 1

====
